---- MODULE Spec2Model ----
(***************************************************************************)
(* A model of the SlypStream upload edge function (src/uploadSlip.ts):     *)
(* the per-client rate limiter, the payload validator, the filename and    *)
(* branch processing, the session-emulating image fetch with its retry     *)
(* loop, and the upload coordinator inside the request handler; and of the *)
(* webhook edge function (src/README.md): its payload validator, the store *)
(* download and the relay to BuildShip with their retry loops.             *)
(*                                                                         *)
(* Strings are sequences of one-character strings, so that trimming,       *)
(* case folding, pattern tests and replacements are computed character by  *)
(* character as the JavaScript does.                                       *)
(*                                                                         *)
(* Three specifications share the variables:                               *)
(*   SpecFn  the pure functions applied to inputs drawn from bounded sets  *)
(*   SpecRL  checkRateLimit called for several client keys as time passes  *)
(*   Spec    one POST request to either function: the upload through       *)
(*           serve, processImageUpload and fetchImageWithSessionHandling,  *)
(*           or the webhook through serve, fetchImageWithSupabaseClient    *)
(*           and sendToBuildShip, against a nondeterministic remote        *)
(*           origin, store and relay target                                *)
(***************************************************************************)
EXTENDS Integers, Sequences, FiniteSets, TLC

VARIABLES
    fnOp,            \* SpecFn: which pure function was applied ("idle" before)
    fnArg,           \* SpecFn: the uploadData the function is applied to
    fnRes,           \* SpecFn: what it returned
    now,             \* Date.now(), in ms
    rateLimitStore,  \* the Map clientIP -> {requests, lastCleanup}
    admitted,        \* history: per key, the admission instants of the trailing window
    rlLast,          \* the checkRateLimit call made at this instant: key, result
    req,             \* Spec: the POST request being served
    pc,              \* Spec: where its handling stands
    fetch,           \* Spec: the locals of fetchImageWithSessionHandling
    net,             \* Spec: how many outbound calls of each kind were made
    fetchResult,     \* Spec: what fetchImageWithSessionHandling returned
    proc,            \* Spec: the locals of processImageUpload
    uploadResult,    \* Spec: what processImageUpload returned
    response,        \* Spec: the Response serve returned
    wh               \* Spec: the webhook request being served, its loops and its Response

fnVars == <<fnOp, fnArg, fnRes>>
rlVars == <<now, rateLimitStore, admitted, rlLast>>
reqVars == <<req, pc, fetch, net, fetchResult, proc, uploadResult, response>>
whVars == <<wh>>
vars == <<fnOp, fnArg, fnRes, now, rateLimitStore, admitted, rlLast,
          req, pc, fetch, net, fetchResult, proc, uploadResult, response, wh>>

(***************************************************************************)
(* Characters and strings                                                  *)
(***************************************************************************)
UpperChars == <<"A","B","C","D","E","F","G","H","I","J","K","L","M",
                "N","O","P","Q","R","S","T","U","V","W","X","Y","Z">>
LowerChars == <<"a","b","c","d","e","f","g","h","i","j","k","l","m",
                "n","o","p","q","r","s","t","u","v","w","x","y","z">>
DigitChars == <<"0","1","2","3","4","5","6","7","8","9">>

Range(s) == {s[i] : i \in DOMAIN s}
UpperSet == Range(UpperChars)
LowerSet == Range(LowerChars)
DigitSet == Range(DigitChars)
\* what the regular expression class \s and String.prototype.trim take as blank
WhiteSpace == {" ", "\t", "\n"}

\* String.prototype.toLowerCase, one character
LowerChar(c) ==
    IF c \in UpperSet
    THEN LowerChars[CHOOSE i \in DOMAIN UpperChars : UpperChars[i] = c]
    ELSE c

toLowerCase(s) == [i \in DOMAIN s |-> LowerChar(s[i])]

\* String.prototype.endsWith
endsWith(s, suffix) ==
    /\ Len(s) >= Len(suffix)
    /\ SubSeq(s, Len(s) - Len(suffix) + 1, Len(s)) = suffix

RECURSIVE TrimLeft(_)
TrimLeft(s) ==
    IF s = <<>> THEN <<>>
    ELSE IF Head(s) \in WhiteSpace THEN TrimLeft(Tail(s)) ELSE s

RECURSIVE TrimRight(_)
TrimRight(s) ==
    IF s = <<>> THEN <<>>
    ELSE IF s[Len(s)] \in WhiteSpace THEN TrimRight(SubSeq(s, 1, Len(s) - 1)) ELSE s

\* String.prototype.trim
trim(s) == TrimRight(TrimLeft(s))

\* .replace(/\s+/g, '-'): every maximal run of blanks becomes one dash
RECURSIVE ReplaceBlankRuns(_)
ReplaceBlankRuns(s) ==
    IF s = <<>> THEN <<>>
    ELSE IF Head(s) \in WhiteSpace
         THEN <<"-">> \o ReplaceBlankRuns(TrimLeft(s))
         ELSE <<Head(s)>> \o ReplaceBlankRuns(Tail(s))

\* the character class widened by '/'
IsSlugChar_AllowSlash(c) == c \in LowerSet \cup DigitSet \cup {"-", "/"}

\* [a-z0-9\-]
IsSlugChar(c) == c \in LowerSet \cup DigitSet \cup {"-"}

\* every other character turned into a dash instead of dropped
StripNonSlug_ToDash(s) == [i \in DOMAIN s |-> IF IsSlugChar(s[i]) THEN s[i] ELSE "-"]

\* .replace(/[^a-z0-9\-]/g, '')
StripNonSlug(s) == SelectSeq(s, IsSlugChar)

\* normalize = trim, toLowerCase, blanks to dashes, strip the rest
normalize(str) == StripNonSlug(ReplaceBlankRuns(toLowerCase(trim(str))))

(***************************************************************************)
(* validateUploadData                                                      *)
(***************************************************************************)
\* a field of the payload: a string, or absent (undefined / null)
Str(s) == [t |-> "str", v |-> s]
Undef == [t |-> "undef", v |-> <<>>]

\* JavaScript truthiness of a field: absent and the empty string are falsy
Truthy(f) == f.t = "str" /\ f.v # <<>>

\* the pattern without its end anchor: /^\d{4}-\d{2}-\d{2}/
dateRegexTest_NoEndAnchor(s) ==
    /\ Len(s) >= 10
    /\ \A i \in {1, 2, 3, 4, 6, 7, 9, 10} : s[i] \in DigitSet
    /\ s[5] = "-"
    /\ s[8] = "-"

\* /^\d{4}-\d{2}-\d{2}$/ .test
dateRegexTest(s) ==
    /\ Len(s) = 10
    /\ \A i \in {1, 2, 3, 4, 6, 7, 9, 10} : s[i] \in DigitSet
    /\ s[5] = "-"
    /\ s[8] = "-"

ImageExtensions ==
    { <<"j","p","g">>, <<"j","p","e","g">>, <<"p","n","g">>,
      <<"g","i","f">>, <<"w","e","b","p">> }

IsNameChar(c) == c \in LowerSet \cup UpperSet \cup DigitSet \cup {"-", "_"}

\* /^[a-zA-Z0-9\-_]+\.(jpg|jpeg|png|gif|webp)$/i .test
validFilenamePatternTest(s) ==
    \E i \in 2..Len(s) :
        /\ s[i] = "."
        /\ \A j \in 1..(i - 1) : IsNameChar(s[j])
        /\ toLowerCase(SubSeq(s, i + 1, Len(s))) \in ImageExtensions

ErrBranch == "branch is required"
ErrDate == "date is required"
ErrFilename == "filename is required"
ErrDateFormat == "Date must be in YYYY-MM-DD format"
ErrFilenameFormat == "Filename format invalid"

\* a validator that accepts everything
validateUploadData_NoChecks(uploadData) == <<>>

\* a validator that stops at the first violation
validateUploadData_FirstOnly(uploadData) ==
    IF ~Truthy(uploadData.branch) THEN <<ErrBranch>>
    ELSE IF ~Truthy(uploadData.date) THEN <<ErrDate>>
    ELSE IF ~Truthy(uploadData.filename) THEN <<ErrFilename>>
    ELSE IF ~dateRegexTest(uploadData.date.v) THEN <<ErrDateFormat>>
    ELSE IF ~validFilenamePatternTest(uploadData.filename.v) THEN <<ErrFilenameFormat>>
    ELSE <<>>

validateUploadData(uploadData) ==
    (IF ~Truthy(uploadData.branch) THEN <<ErrBranch>> ELSE <<>>)
    \o (IF ~Truthy(uploadData.date) THEN <<ErrDate>> ELSE <<>>)
    \o (IF ~Truthy(uploadData.filename) THEN <<ErrFilename>> ELSE <<>>)
    \o (IF Truthy(uploadData.date) /\ ~dateRegexTest(uploadData.date.v)
        THEN <<ErrDateFormat>> ELSE <<>>)
    \o (IF Truthy(uploadData.filename) /\ ~validFilenamePatternTest(uploadData.filename.v)
        THEN <<ErrFilenameFormat>> ELSE <<>>)

(***************************************************************************)
(* generateFinalFilename                                                   *)
(***************************************************************************)
DotJpg == <<".", "j", "p", "g">>

\* .replace(/\.[^/.]+$/, ''): drop a last ".ext" that holds no '/' and no '.'
StripExtension(s) ==
    IF \E i \in 1..(Len(s) - 1) :
           /\ s[i] = "."
           /\ \A j \in (i + 1)..Len(s) : s[j] \notin {"/", "."}
    THEN LET i == CHOOSE k \in 1..(Len(s) - 1) :
                      /\ s[k] = "."
                      /\ \A j \in (k + 1)..Len(s) : s[j] \notin {"/", "."}
         IN  SubSeq(s, 1, i - 1)
    ELSE s

\* .replace(/\.jpg$/, `_${uniqueSuffix}.jpg`): the pattern is case-sensitive
InsertSuffix(s, uniqueSuffix) ==
    IF endsWith(s, DotJpg)
    THEN SubSeq(s, 1, Len(s) - 4) \o <<"_">> \o uniqueSuffix \o DotJpg
    ELSE s

\* uniqueSuffix stands for crypto.randomUUID().slice(0, 8)
generateFinalFilename(originalFilename, uniqueSuffix) ==
    LET coerced == IF ~endsWith(toLowerCase(originalFilename), DotJpg)
                   THEN StripExtension(originalFilename) \o DotJpg
                   ELSE originalFilename
    IN  InsertSuffix(coerced, uniqueSuffix)

(***************************************************************************)
(* checkRateLimit                                                          *)
(***************************************************************************)
RATE_LIMIT_WINDOW == 60000
RATE_LIMIT_MAX_REQUESTS == 30

\* the client keys (x-forwarded-for / x-real-ip / 'unknown')
ClientIPs == {"10.0.0.1", "10.0.0.2"}

\* an empty Map
EmptyStore == [ip \in {} |-> [requests |-> <<>>, lastCleanup |-> 0]]

\* rateLimitStore.get(clientIP) || { requests: [], lastCleanup: now }
ClientDataOf(store, clientIP, t) ==
    IF clientIP \in DOMAIN store
    THEN store[clientIP]
    ELSE [requests |-> <<>>, lastCleanup |-> t]

\* requests.filter((timestamp) => now - timestamp < RATE_LIMIT_WINDOW)
InWindow(requests, t) ==
    SelectSeq(requests, LAMBDA timestamp : t - timestamp < RATE_LIMIT_WINDOW)

\* rateLimitStore.set(clientIP, clientData)
StoreSet(store, clientIP, clientData) ==
    [ip \in DOMAIN store \cup {clientIP} |->
        IF ip = clientIP THEN clientData ELSE store[ip]]

\* the sweep's test of one entry
SweepEvicts(data, t) == t - data.lastCleanup > RATE_LIMIT_WINDOW * 2

\* lines 69-76: when the caller's entry was last cleaned more than a window
\* ago, delete every entry (the caller's own, just set, included) last cleaned
\* more than two windows ago; then stamp the caller's clientData object, which
\* is the stored entry only if the loop has not deleted it
Sweep(store, clientIP, t) ==
    IF t - store[clientIP].lastCleanup > RATE_LIMIT_WINDOW
    THEN LET kept == {ip \in DOMAIN store : ~SweepEvicts(store[ip], t)}
         IN  [ip \in kept |->
                 IF ip = clientIP
                 THEN [store[ip] EXCEPT !.lastCleanup = t]
                 ELSE store[ip]]
    ELSE store

\* a limiter that admits every call
RateLimitResult_AlwaysAllowed(store, clientIP, t) == [allowed |-> TRUE, resetTime |-> 0]

\* the value checkRateLimit returns
RateLimitResult(store, clientIP, t) ==
    LET requests == InWindow(ClientDataOf(store, clientIP, t).requests, t)
    IN  IF Len(requests) >= RATE_LIMIT_MAX_REQUESTS
        THEN [allowed |-> FALSE, resetTime |-> requests[1] + RATE_LIMIT_WINDOW]
        ELSE [allowed |-> TRUE, resetTime |-> 0]

\* a limiter that records denied calls too
RateLimitStoreAfter_PushAlways(store, clientIP, t) ==
    LET clientData == ClientDataOf(store, clientIP, t)
    IN  Sweep(StoreSet(store, clientIP,
                       [clientData EXCEPT
                           !.requests = Append(InWindow(clientData.requests, t), t)]),
              clientIP, t)

\* the store checkRateLimit leaves behind
RateLimitStoreAfter(store, clientIP, t) ==
    LET clientData == ClientDataOf(store, clientIP, t)
        requests == InWindow(clientData.requests, t)
    IN  IF Len(requests) >= RATE_LIMIT_MAX_REQUESTS
        THEN \* clientData.requests was reassigned on the stored object
             IF clientIP \in DOMAIN store
             THEN [store EXCEPT ![clientIP].requests = requests]
             ELSE store
        ELSE Sweep(StoreSet(store, clientIP,
                            [clientData EXCEPT !.requests = Append(requests, t)]),
                   clientIP, t)

(***************************************************************************)
(* Values exchanged with the remote origin                                 *)
(***************************************************************************)
\* A text or body: its length, and where it holds the markers '<!DOCTYPE html'
\* and '<html' (offset of the first character, counted from 0).
NoText == [what |-> "", size |-> 0, markers |-> {}]
MarkDoctype(at) == [s |-> "<!DOCTYPE html", at |-> at, len |-> 14]
MarkHtml(at) == [s |-> "<html", at |-> at, len |-> 5]

\* String.prototype.includes, for the two markers the code looks for
includes(text, needle) == \E m \in text.markers : m.s = needle

\* String.prototype.substring(0, n)
substring0(text, n) ==
    [what |-> text.what,
     size |-> IF text.size < n THEN text.size ELSE n,
     markers |-> {m \in text.markers : m.at + m.len <= n}]

LooksLikeHtml(text) == includes(text, "<!DOCTYPE html") \/ includes(text, "<html")

\* a URL: whether new URL() accepts it, its origin, its path segments
NoUrl == [present |-> FALSE, valid |-> FALSE, origin |-> "", segs |-> <<>>]

\* targetUrl.includes('gog/redirect') || targetUrl.includes('redirect')
IsVerificationUrl(u) == "redirect" \in Range(u.segs)

\* a Content-Type header; NoContentType stands for a missing header (null)
NoContentType == [type |-> "", subtype |-> ""]
OctetStream == [type |-> "application", subtype |-> "octet-stream"]

\* the test narrowed to one image type
StartsWithImage_JpegOnly(contentType) ==
    contentType.type = "image" /\ contentType.subtype = "jpeg"

\* contentType?.startsWith('image/')
StartsWithImage(contentType) == contentType.type = "image"

\* response.ok
IsOk(status) == status >= 200 /\ status <= 299

\* a Set-Cookie header value: the name=value pair, then its attributes
SetCookie(pair, attrs) == [pair |-> pair, attrs |-> attrs]

RECURSIVE PairsOf(_)
PairsOf(headers) ==
    IF headers = <<>> THEN <<>>
    ELSE <<Head(headers).pair>> \o PairsOf(Tail(headers))

\* extractCookies: the part before the first ';' of every Set-Cookie header
\* (getSetCookie), empty pairs skipped
extractCookies(setCookieHeaders) ==
    SelectSeq(PairsOf(setCookieHeaders), LAMBDA cookiePair : cookiePair # "")

\* [...new Set(list)]: first occurrences, in order
RECURSIVE Dedupe(_)
Dedupe(list) ==
    IF list = <<>> THEN <<>>
    ELSE LET front == Dedupe(SubSeq(list, 1, Len(list) - 1))
             last == list[Len(list)]
         IN  IF last \in Range(front) THEN front ELSE Append(front, last)

(***************************************************************************)
(* fetchImageWithSessionHandling: its results and its final step           *)
(***************************************************************************)
maxRetries == 3

NoResult ==
    [kind |-> "none", data |-> NoText, contentType |-> NoContentType,
     error |-> "", details |-> NoText, finalUrl |-> ""]

FetchSuccess(data, contentType) ==
    [kind |-> "success", data |-> data, contentType |-> contentType,
     error |-> "", details |-> NoText, finalUrl |-> ""]

FetchFailure(error, details, finalUrl) ==
    [kind |-> "failure", data |-> NoText, contentType |-> NoContentType,
     error |-> error, details |-> details, finalUrl |-> finalUrl]

ErrBotProtection == "Unable to bypass bot protection after multiple attempts"
ErrNetwork == "Network error while fetching image"
ErrFetchStatus(status) == "Failed to fetch image: " \o ToString(status)

\* safeStringify(error): the message of a thrown error
ErrorMessage(what) == [what |-> what, size |-> 40, markers |-> {}]

\* attempt === maxRetries, with one attempt too few
IsLastAttempt_OneEarly(attempt) == attempt >= maxRetries - 1

\* attempt === maxRetries
IsLastAttempt(attempt) == attempt = maxRetries

\* A response with status 204 or 205 has a null body: reading it as text
\* leaves it unused. Any other body is a stream that can be read once.
HasNullBody(status) == status \in {204, 205}

\* Lines 254-293, what the final response leads to on attempt `attempt`:
\*   "return"    the function returns `result`
\*   "continue"  the loop continues at once (no backoff)
\*   "fallout"   the try block ends, the backoff follows
\*   "throw"     an exception reaches the catch block
\* A body already read as text cannot be read again: arrayBuffer() throws.
FinalStep(attempt, finalResponse) ==
    IF IsOk(finalResponse.status)
    THEN IF ~StartsWithImage(finalResponse.contentType)
         THEN IF LooksLikeHtml(finalResponse.body)
              THEN IF IsLastAttempt(attempt)
                   THEN [next |-> "return",
                         result |-> FetchFailure(ErrBotProtection,
                                        substring0(finalResponse.body, 300),
                                        finalResponse.url)]
                   ELSE [next |-> "continue", result |-> NoResult]
              ELSE IF HasNullBody(finalResponse.status)
                   THEN [next |-> "return",
                         result |-> FetchSuccess(finalResponse.body, OctetStream)]
                   ELSE [next |-> "throw", result |-> NoResult]
         ELSE [next |-> "return",
               result |-> FetchSuccess(finalResponse.body, finalResponse.contentType)]
    ELSE IF IsLastAttempt(attempt)
         THEN [next |-> "return",
               result |-> FetchFailure(ErrFetchStatus(finalResponse.status),
                              substring0(finalResponse.body, 300),
                              finalResponse.url)]
         ELSE [next |-> "fallout", result |-> NoResult]

\* Lines 294-303, the catch block
CatchStep(attempt, what) ==
    IF IsLastAttempt(attempt)
    THEN [next |-> "return",
          result |-> FetchFailure(ErrNetwork, ErrorMessage(what), "")]
    ELSE [next |-> "fallout", result |-> NoResult]

\* How an attempt can end: with an image, with a 2xx HTML page, with another
\* 2xx body, with a 2xx response without a body (204), with a non-2xx status,
\* or with a thrown error.
AttemptOutcomes == {"image", "html", "other", "nobody", "status", "threw"}

\* the last attempt's HTML page treated like that of any other attempt
AttemptEnd_HtmlAlwaysContinues(max, attempt, outcome) ==
    IF outcome \in {"image", "nobody"} THEN "success"
    ELSE IF outcome = "html" THEN "continue"
    ELSE IF attempt = max THEN "failure" ELSE "backoff"

\* Lines 254-303 for a call with maxRetries = max: what the attempt leads
\* to, "success" or "failure" (a return), "continue" or "backoff" (the loop
\* goes on)
AttemptEnd(max, attempt, outcome) ==
    CASE outcome \in {"image", "nobody"} -> "success"
      [] outcome = "html" -> IF attempt = max THEN "failure" ELSE "continue"
      [] outcome \in {"other", "threw"} ->
             \* the catch block; "other": arrayBuffer() threw
             IF attempt = max THEN "failure" ELSE "backoff"
      [] outcome = "status" -> IF attempt = max THEN "failure" ELSE "backoff"

\* Lines 136-311: the loop for(attempt = 1; attempt <= maxRetries; attempt++)
\* over the given outcomes; "undefined" is the exit below the loop
RECURSIVE FetchLoop(_, _, _)
FetchLoop(max, attempt, outcomes) ==
    IF attempt > max
    THEN [kind |-> "undefined", attempts |-> attempt - 1]
    ELSE LET end == AttemptEnd(max, attempt, outcomes[attempt])
         IN  IF end \in {"success", "failure"}
             THEN [kind |-> end, attempts |-> attempt]
             ELSE FetchLoop(max, attempt + 1, outcomes)

\* Lines 304-309: the wait before the next attempt
BackoffAfter(attempt) == IF attempt < maxRetries THEN 1000 * attempt ELSE 0

(***************************************************************************)
(* processImageUpload: its results                                         *)
(***************************************************************************)
MaxSizeBytes == 10 * 1024 * 1024

ErrTooLarge == "Image too large. Maximum size is 10MB"

\* the test with >= in place of >
validateImageSize_AtLeast(imageData) ==
    IF imageData.size >= MaxSizeBytes THEN ErrTooLarge ELSE ""

\* validateImageSize: the error, or "" for null
validateImageSize(imageData) ==
    IF imageData.size > MaxSizeBytes THEN ErrTooLarge ELSE ""

NoUpload ==
    [kind |-> "none", error |-> "", details |-> NoText, suggestion |-> FALSE,
     finalUrl |-> "", storagePath |-> <<>>, finalFilename |-> <<>>,
     imageSizeBytes |-> 0, uploadMode |-> ""]

UploadFailure(error, details, suggestion, finalUrl) ==
    [NoUpload EXCEPT !.kind = "failure", !.error = error, !.details = details,
                     !.suggestion = suggestion, !.finalUrl = finalUrl]

ErrBotDetected == "Bot protection detected - unable to fetch image"
BotDetectedDetails ==
    [what |-> "The source URL is protected by bot detection systems.",
     size |-> 104, markers |-> {}]
ErrNoImage == "Either imageUrl or image file must be provided"
ErrStorage == "Failed to upload image to storage"

\* Lines 327-346: how a failed fetch is reported
FetchFailureReport(result) ==
    IF LooksLikeHtml(result.details)
    THEN UploadFailure(ErrBotDetected, BotDetectedDetails, TRUE, "")
    ELSE UploadFailure(result.error, result.details, FALSE, result.finalUrl)

\* Lines 365-367
StoragePath(uploadData, finalFilename) ==
    normalize(uploadData.branch.v) \o <<"/">> \o uploadData.date.v
        \o <<"/">> \o finalFilename

(***************************************************************************)
(* Inputs: the strings and payloads the specifications draw from          *)
(***************************************************************************)
MaxBaseLen == 2      \* longest base name of an enumerated filename
MaxBranchLen == 3    \* longest enumerated branch string

RECURSIVE SeqsUpTo(_, _)
SeqsUpTo(S, n) ==
    IF n = 0 THEN {<<>>}
    ELSE LET shorter == SeqsUpTo(S, n - 1)
         IN  shorter \cup {Append(s, c) : s \in shorter, c \in S}

UpperChar(c) ==
    IF c \in LowerSet
    THEN UpperChars[CHOOSE i \in DOMAIN LowerChars : LowerChars[i] = c]
    ELSE c

\* every spelling of e in upper and lower case letters
CaseVariants(e) ==
    { [i \in DOMAIN e |-> IF i \in S THEN UpperChar(e[i]) ELSE e[i]] :
        S \in SUBSET (DOMAIN e) }

FilenameBases == SeqsUpTo({"a", "Z", "9", "-", "_", ".", "/"}, MaxBaseLen)

FilenameExtensions ==
    UNION {CaseVariants(e) : e \in ImageExtensions}
    \cup { <<"t","x","t">>, <<"j","p">>, <<"j","p","g","x">>, <<"s","v","g">>, <<>> }

FilenameInputs ==
    {b \o <<".">> \o e : b \in FilenameBases, e \in FilenameExtensions}
    \cup {<<>>, <<"j","p","g">>, <<"p","h","o","t","o",".","p","n","g">>}

DateInputs ==
    { y \o <<sep>> \o m \o <<sep>> \o d :
        y \in { <<"2","0","2","4">>, <<"2","0","2","3">>, <<"2","4">> },
        m \in { <<"0","0">>, <<"0","1">>, <<"0","2">>, <<"0","4">>,
                <<"1","2">>, <<"1","3">>, <<"1">> },
        d \in { <<"0","0">>, <<"0","1">>, <<"1","5">>, <<"2","8">>, <<"2","9">>,
                <<"3","0">>, <<"3","1">>, <<"3","2">>, <<"4","0">>, <<"5">> },
        sep \in {"-", "/"} }
    \cup { <<>>,
           <<"2","0","2","4","-","0","1","-","1","5"," ">>,
           <<" ","2","0","2","4","-","0","1","-","1","5">>,
           <<"2","0","2","4","-","0","1","-","1","5","0">>,
           <<"x","x","x","x","-","x","x","-","x","x">>,
           <<"2","0","2","4","0","1","1","5">> }

BranchFeatureX == <<"F","e","a","t","u","r","e","/","X">>

BranchInputs ==
    SeqsUpTo({"F", "x", "7", " ", "\t", "/", "-"}, MaxBranchLen)
    \cup { BranchFeatureX,
           <<" ","M","y"," "," ","B","r","a","n","c","h"," ">>,
           <<"m","a","i","n">> }

BranchMain == <<"m","a","i","n">>
Date20240115 == <<"2","0","2","4","-","0","1","-","1","5">>
Date20241340 == <<"2","0","2","4","-","1","3","-","4","0">>
DateMalformed == <<"1","5","/","0","1">>
FilenamePhotoPng == <<"p","h","o","t","o",".","p","n","g">>
FilenameATxt == <<"a",".","t","x","t">>

UploadData(b, d, f) == [branch |-> b, date |-> d, filename |-> f]

\* {branch:"main", date:"2024-13-40", filename:"a.txt"}
PayloadBadDateBadExt == UploadData(Str(BranchMain), Str(Date20241340), Str(FilenameATxt))

FieldChoices(good, bad) == {Undef, Str(<<>>), Str(good), Str(bad)}

MaxRetriesInput == 3

\* fetchImageWithSessionHandling(url, maxRetries) with the outcome of each
\* attempt it may get to
SeqsOfLen(S, n) == [1..n -> S]
LoopInputs ==
    UNION {{[maxRetries |-> m, outcomes |-> o] : o \in SeqsOfLen(AttemptOutcomes, m)} :
              m \in 1..MaxRetriesInput}

IsUploadData(arg) == "branch" \in DOMAIN arg

FnInputs ==
    {UploadData(Str(b), Str(Date20240115), Str(FilenamePhotoPng)) : b \in BranchInputs}
    \cup {UploadData(Str(BranchMain), Str(d), Str(FilenamePhotoPng)) : d \in DateInputs}
    \cup {UploadData(Str(BranchMain), Str(Date20240115), Str(f)) : f \in FilenameInputs}
    \cup {UploadData(b, d, f) :
            b \in {Undef, Str(<<>>), Str(BranchMain)},
            d \in FieldChoices(Date20240115, Date20241340) \cup {Str(DateMalformed)},
            f \in FieldChoices(FilenamePhotoPng, FilenameATxt)}

\* values crypto.randomUUID().slice(0, 8) can take: eight hexadecimal digits
UniqueSuffixes ==
    { <<"0","0","0","0","0","0","0","0">>,
      <<"3","f","a","8","5","f","6","4">>,
      <<"d","e","a","d","b","e","e","f">> }

(***************************************************************************)
(* A POST request and the records of its handling                          *)
(***************************************************************************)
\* Deno.env.get('UPLOAD_SECRET')
UploadSecret == <<"s", "3", "c", "r", "3", "t">>

\* req.headers.get('Authorization'): null, or the header's text
NoAuth == [present |-> FALSE, text |-> <<>>]
AuthHeader(scheme, token) == [present |-> TRUE, text |-> scheme \o token]

BearerPrefix == <<"B", "e", "a", "r", "e", "r", " ">>
BearerLower == <<"b", "e", "a", "r", "e", "r", " ">>
BasicPrefix == <<"B", "a", "s", "i", "c", " ">>

\* String.prototype.startsWith
startsWith(s, prefix) ==
    /\ Len(s) >= Len(prefix)
    /\ SubSeq(s, 1, Len(prefix)) = prefix

\* authHeader.substring(7)
substringFrom7(s) == SubSeq(s, 8, Len(s))

\* the comparison relaxed to "the token begins with the secret"
TokenMatches_Prefix(token, uploadSecret) == startsWith(token, uploadSecret)

\* token !== uploadSecret, negated
TokenMatches(token, uploadSecret) == token = uploadSecret

NoFile == [present |-> FALSE, bytes |-> NoText, type |-> NoContentType]
File(bytes, type) == [present |-> TRUE, bytes |-> bytes, type |-> type]

ImagePng == [type |-> "image", subtype |-> "png"]
TextHtml == [type |-> "text", subtype |-> "html"]
TextPlain == [type |-> "text", subtype |-> "plain"]

Bytes(what, size) == [what |-> what, size |-> size, markers |-> {}]
BytesPng == Bytes("png, 2 MiB", 2 * 1024 * 1024)
BytesEmpty == Bytes("nothing", 0)
BytesAtLimit == Bytes("png, 10 MiB", 10 * 1024 * 1024)
BytesOverLimit == Bytes("png, 10 MiB + 1", 10 * 1024 * 1024 + 1)
\* an HTML page that starts with its doctype
BodyHtmlPage ==
    [what |-> "html page", size |-> 5000, markers |-> {MarkDoctype(0), MarkHtml(16)}]
\* an HTML page whose <html tag comes after a long preamble
BodyHtmlLate ==
    [what |-> "html page, late tag", size |-> 5000, markers |-> {MarkHtml(400)}]

UrlSlip ==
    [present |-> TRUE, valid |-> TRUE, origin |-> "https://cdn.example.com",
     segs |-> <<"slips", "img.png">>]
UrlGateway ==
    [present |-> TRUE, valid |-> TRUE, origin |-> "https://cdn.example.com",
     segs |-> <<"gog", "redirect">>]
UrlMoved ==
    [present |-> TRUE, valid |-> TRUE, origin |-> "https://cdn.example.com",
     segs |-> <<"v2", "img.png">>]
\* a truthy imageUrl that new URL() rejects
UrlMalformed ==
    [present |-> TRUE, valid |-> FALSE, origin |-> "", segs |-> <<"not a url">>]

Payload(b, d, f, u) == [branch |-> b, date |-> d, filename |-> f, imageUrl |-> u]
GoodPayload(u) ==
    Payload(Str(BranchFeatureX), Str(Date20240115), Str(FilenamePhotoPng), u)
BadPayload(u) ==
    Payload(Str(BranchMain), Str(Date20241340), Str(FilenameATxt), u)

Request(envOk, auth, body, data, file) ==
    [ip |-> "10.0.0.1", envOk |-> envOk, auth |-> auth, body |-> body,
     data |-> data, file |-> file, cancelled |-> FALSE]

GoodAuth == AuthHeader(BearerPrefix, UploadSecret)

\* headers that must not pass: none, a wrong token, a wrong scheme, the scheme
\* in lower case, a second blank, the secret followed by one more character,
\* the scheme without a token
BadAuths ==
    { NoAuth,
      AuthHeader(BearerPrefix, <<"w", "r", "o", "n", "g">>),
      AuthHeader(BasicPrefix, UploadSecret),
      AuthHeader(BearerLower, UploadSecret),
      AuthHeader(BearerPrefix, <<" ">> \o UploadSecret),
      AuthHeader(BearerPrefix, UploadSecret \o <<"x">>),
      AuthHeader(BearerPrefix, <<>>) }

DirectFiles ==
    { File(BytesPng, ImagePng), File(BytesPng, NoContentType),
      File(BytesEmpty, ImagePng), File(BytesAtLimit, ImagePng),
      File(BytesOverLimit, ImagePng) }

Requests ==
    \* multipart/form-data
    {Request(TRUE, GoodAuth, "form", GoodPayload(NoUrl), f) : f \in DirectFiles}
    \cup { Request(TRUE, GoodAuth, "form", GoodPayload(NoUrl), NoFile),
           Request(TRUE, GoodAuth, "form", BadPayload(NoUrl), File(BytesPng, ImagePng)) }
    \* JSON
    \cup {Request(TRUE, GoodAuth, "json", GoodPayload(u), NoFile) :
            u \in {UrlSlip, UrlMalformed, NoUrl}}
    \cup { Request(TRUE, GoodAuth, "json", BadPayload(UrlSlip), NoFile),
           Request(TRUE, GoodAuth, "badjson", GoodPayload(NoUrl), NoFile),
           Request(TRUE, GoodAuth, "jsonnull", GoodPayload(NoUrl), NoFile) }
    \* configuration and credentials
    \cup {Request(e, a, b, GoodPayload(IF b = "json" THEN UrlSlip ELSE NoUrl),
                  IF b = "form" THEN File(BytesPng, ImagePng) ELSE NoFile) :
            e \in BOOLEAN,
            a \in BadAuths \cup {GoodAuth},
            b \in {"form", "json"}}

\* a store in which the client has used up its window (30 admissions at t = 0)
FullStore ==
    [ip \in {"10.0.0.1"} |->
        [requests |-> [i \in 1..RATE_LIMIT_MAX_REQUESTS |-> 0], lastCleanup |-> 0]]

NoResponse ==
    [status |-> 0, error |-> "", violations |-> <<>>, details |-> NoText,
     finalUrl |-> "", retryAfter |-> 0, message |-> "", storagePath |-> <<>>,
     finalFilename |-> <<>>, imageSizeBytes |-> 0, uploadMode |-> ""]

ErrorResponse(status, error) == [NoResponse EXCEPT !.status = status, !.error = error]

NoFinal == [status |-> 0, contentType |-> NoContentType, body |-> NoText, url |-> ""]

FetchIdle ==
    [attempt |-> 0, sessionCookies |-> <<>>, allCookies |-> <<>>,
     targetUrl |-> NoUrl, calls |-> <<>>, backoff |-> 0, pause |-> 0,
     final |-> NoFinal, finalAttempt |-> 0, history |-> <<>>]

NetIdle == [origin |-> 0, probe |-> 0, verify |-> 0, final |-> 0, store |-> 0]

ProcIdle ==
    [has |-> FALSE, imageData |-> NoText, contentTypeHeader |-> OctetStream,
     uploadMode |-> "", finalFilename |-> <<>>, storagePath |-> <<>>]

ReqIdle ==
    /\ req = Request(TRUE, NoAuth, "none", GoodPayload(NoUrl), NoFile)
    /\ pc = "idle"
    /\ fetch = FetchIdle
    /\ net = NetIdle
    /\ fetchResult = NoResult
    /\ proc = ProcIdle
    /\ uploadResult = NoUpload
    /\ response = NoResponse

(***************************************************************************)
(* The webhook function (src/README.md): validatePayload,                  *)
(* fetchImageWithSupabaseClient, sendToBuildShip and its serve handler     *)
(***************************************************************************)
MAX_RETRIES == 2
RETRY_DELAY_BASE == 1000
BUILDSHIP_TIMEOUT == 120000
STORAGE_PROPAGATION_DELAY == 5000
MAX_IMAGE_SIZE == 10 * 1024 * 1024

\* payload.public_url: whether new URL() parses it, which of the words the
\* code looks for it contains, and into how many pieces
\* split('/storage/v1/object/public/') cuts it
PublicUrl(valid, words, pieces) ==
    [present |-> TRUE, valid |-> valid, words |-> words, pieces |-> pieces]
NoPublicUrl == [present |-> FALSE, valid |-> FALSE, words |-> {}, pieces |-> 0]

\* https://proj.supabase.co/storage/v1/object/public/edge-slips/main/a.png
PublicUrlStored == PublicUrl(TRUE, {"supabase.co", "storage"}, 2)
\* https://storage.example.com/a.png
PublicUrlOtherStorage == PublicUrl(TRUE, {"storage"}, 1)
\* https://cdn.example.com/a.png
PublicUrlForeign == PublicUrl(TRUE, {}, 1)
\* 'storage, not a url'
PublicUrlMalformed == PublicUrl(FALSE, {"storage"}, 1)

HexSet == DigitSet \cup {"a", "b", "c", "d", "e", "f"} \cup {"A", "B", "C", "D", "E", "F"}

\* /^[0-9a-f]{8}-[0-9a-f]{4}-[0-9a-f]{4}-[0-9a-f]{4}-[0-9a-f]{12}$/i .test
uuidRegexTest(s) ==
    /\ Len(s) = 36
    /\ \A i \in 1..36 : IF i \in {9, 14, 19, 24} THEN s[i] = "-" ELSE s[i] \in HexSet

MetadataIdGood == [i \in 1..36 |-> IF i \in {9, 14, 19, 24} THEN "-" ELSE "A"]
MetadataIdBad == [i \in 1..36 |-> IF i \in {9, 14, 19, 24} THEN "-" ELSE "g"]

ErrNotObject == "Payload must be a valid object"
ErrMissing(field) == "Missing required field: " \o field
ErrNotStorageUrl == "public_url must be a valid Supabase storage URL"
ErrNotUrl == "public_url must be a valid URL"
ErrWhDate == "date must be in YYYY-MM-DD format"
ErrWhFilename == "filename must be alphanumeric with valid image extension"
ErrNotUuid == "metadataId must be a valid UUID"

\* the webhook payload: JSON that is no object (null, a number, a string),
\* or an object with these fields
NotAnObject == [isObject |-> FALSE]
WebhookPayload(u, f, b, d, m) ==
    [isObject |-> TRUE, public_url |-> u, filename |-> f, branch |-> b,
     date |-> d, metadataId |-> m]

validatePayload(payload) ==
    IF ~payload.isObject
    THEN <<ErrNotObject>>
    ELSE (IF ~payload.public_url.present THEN <<ErrMissing("public_url")>> ELSE <<>>)
         \o (IF ~Truthy(payload.filename) THEN <<ErrMissing("filename")>> ELSE <<>>)
         \o (IF ~Truthy(payload.branch) THEN <<ErrMissing("branch")>> ELSE <<>>)
         \o (IF ~Truthy(payload.date) THEN <<ErrMissing("date")>> ELSE <<>>)
         \o (IF ~Truthy(payload.metadataId) THEN <<ErrMissing("metadataId")>> ELSE <<>>)
         \o (IF payload.public_url.present
             THEN IF payload.public_url.valid
                  THEN IF "supabase.co" \notin payload.public_url.words
                          /\ "storage" \notin payload.public_url.words
                       THEN <<ErrNotStorageUrl>> ELSE <<>>
                  ELSE <<ErrNotUrl>>
             ELSE <<>>)
         \o (IF Truthy(payload.date) /\ ~dateRegexTest(payload.date.v)
             THEN <<ErrWhDate>> ELSE <<>>)
         \o (IF Truthy(payload.filename) /\ ~validFilenamePatternTest(payload.filename.v)
             THEN <<ErrWhFilename>> ELSE <<>>)
         \o (IF Truthy(payload.metadataId) /\ ~uuidRegexTest(payload.metadataId.v)
             THEN <<ErrNotUuid>> ELSE <<>>)

\* results of fetchImageWithSupabaseClient and of sendToBuildShip
NoWhResult ==
    [kind |-> "none", error |-> "", attempts |-> 0, status |-> 0,
     sizeBytes |-> 0, contentType |-> NoContentType]
WhFailure(error, attempts, status) ==
    [NoWhResult EXCEPT !.kind = "failure", !.error = error,
                       !.attempts = attempts, !.status = status]
DownloadSuccess(sizeBytes, contentType) ==
    [NoWhResult EXCEPT !.kind = "success", !.sizeBytes = sizeBytes,
                       !.contentType = contentType]
RelaySuccess(status, attempts) ==
    [NoWhResult EXCEPT !.kind = "success", !.status = status, !.attempts = attempts]

ImageJpeg == [type |-> "image", subtype |-> "jpeg"]

\* what supabase.storage.from(bucket).download(filePath) comes back with
DownloadOutcome(kind, size, type) == [kind |-> kind, size |-> size, type |-> type]
DownloadOutcomes ==
    {DownloadOutcome(k, 0, NoContentType) : k \in {"error", "nodata", "throw"}}
    \cup {DownloadOutcome("data", sz, ty) :
             sz \in {0, 2 * 1024 * 1024, MAX_IMAGE_SIZE, MAX_IMAGE_SIZE + 1},
             ty \in {ImagePng, NoContentType}}

\* One attempt of the download loop: "return" with the result, or "retry"
\* after the delay.
DownloadStep(attempt, outcome) ==
    CASE outcome.kind = "error" ->
             IF attempt < MAX_RETRIES
             THEN [next |-> "retry", delay |-> RETRY_DELAY_BASE * attempt,
                   result |-> NoWhResult]
             ELSE [next |-> "return", delay |-> 0,
                   result |-> WhFailure("Supabase storage error", attempt, 0)]
      [] outcome.kind = "nodata" ->
             IF attempt < MAX_RETRIES
             THEN [next |-> "retry", delay |-> RETRY_DELAY_BASE * attempt,
                   result |-> NoWhResult]
             ELSE [next |-> "return", delay |-> 0,
                   result |-> WhFailure("No data returned from storage", attempt, 0)]
      [] outcome.kind = "data" ->
             [next |-> "return", delay |-> 0,
              result |-> IF outcome.size > MAX_IMAGE_SIZE
                         THEN WhFailure("Image too large", attempt, 0)
                         ELSE IF outcome.size = 0
                         THEN WhFailure("Downloaded file is empty", attempt, 0)
                         ELSE DownloadSuccess(outcome.size,
                                  IF outcome.type = NoContentType THEN ImageJpeg
                                  ELSE outcome.type)]
      [] outcome.kind = "throw" ->
             IF attempt = MAX_RETRIES
             THEN [next |-> "return", delay |-> 0,
                   result |-> WhFailure("download threw", attempt, 0)]
             ELSE [next |-> "retry", delay |-> RETRY_DELAY_BASE * attempt,
                   result |-> NoWhResult]

\* what the POST to BuildShip comes back with: a response, the abort of the
\* timeout, or another transport error
RelayOutcome(kind, status) == [kind |-> kind, status |-> status]
RelayStatuses == {200, 400, 404, 429, 500, 503}
RelayOutcomes ==
    {RelayOutcome("response", st) : st \in RelayStatuses}
    \cup {RelayOutcome("abort", 0), RelayOutcome("error", 0)}

\* the test with 429 counted as a client error
IsClientError_With429(status) == status >= 400 /\ status < 500

\* the test narrowed to status 400
IsClientError_Only400(status) == status = 400

\* Don't retry on client errors (4xx) except 429:
\* response.status >= 400 && response.status < 500 && response.status !== 429

IsClientError(status) == status >= 400 /\ status < 500 /\ status # 429

AbortRetried_Never(attempt) == FALSE

\* the abort branch of the catch: if (attempt < CONFIG.MAX_RETRIES)
AbortRetried(attempt) == attempt < MAX_RETRIES

\* One attempt of the relay loop
RelayStep(attempt, outcome) ==
    CASE outcome.kind = "response" ->
             IF IsOk(outcome.status)
             THEN [next |-> "return", delay |-> 0,
                   result |-> RelaySuccess(outcome.status, attempt)]
             ELSE IF IsClientError(outcome.status)
             THEN [next |-> "return", delay |-> 0,
                   result |-> WhFailure("BuildShip client error", attempt, outcome.status)]
             ELSE IF attempt < MAX_RETRIES
             THEN [next |-> "retry", delay |-> RETRY_DELAY_BASE * attempt,
                   result |-> NoWhResult]
             ELSE [next |-> "return", delay |-> 0,
                   result |-> WhFailure("BuildShip error", attempt, outcome.status)]
      [] outcome.kind = "abort" ->
             IF AbortRetried(attempt)
             THEN [next |-> "retry", delay |-> RETRY_DELAY_BASE, result |-> NoWhResult]
             ELSE [next |-> "return", delay |-> 0,
                   result |-> WhFailure("BuildShip timeout", attempt, 0)]
      [] outcome.kind = "error" ->
             IF attempt = MAX_RETRIES
             THEN [next |-> "return", delay |-> 0,
                   result |-> WhFailure("BuildShip request failed", attempt, 0)]
             ELSE [next |-> "retry", delay |-> RETRY_DELAY_BASE * attempt,
                   result |-> NoWhResult]

\* the Response of the webhook's serve
NoWhResponse == [status |-> 0, error |-> "", details |-> <<>>, attempts |-> 0]
WhResponse(status, error, details, attempts) ==
    [status |-> status, error |-> error, details |-> details, attempts |-> attempts]

\* a loop of the webhook: the attempt in progress, the calls made, the
\* outcome of each attempt and the delay taken after each failed one
NoLoop == [attempt |-> 0, calls |-> 0, history |-> <<>>, waits |-> <<>>]

WebhookRequest(envOk, parses, payload) ==
    [pc |-> "recv", envOk |-> envOk, parses |-> parses, payload |-> payload,
     propagationWait |-> 0, download |-> NoLoop, fetchResult |-> NoWhResult,
     relay |-> NoLoop, buildShipResult |-> NoWhResult, response |-> NoWhResponse,
     cancelled |-> FALSE]

WebhookGoodPayload(u) ==
    WebhookPayload(u, Str(FilenamePhotoPng), Str(BranchMain), Str(Date20240115),
                   Str(MetadataIdGood))

WebhookPayloads ==
    {NotAnObject}
    \cup {WebhookPayload(u, f, b, d, m) :
             u \in {PublicUrlStored, PublicUrlOtherStorage, PublicUrlForeign,
                    PublicUrlMalformed, NoPublicUrl},
             f \in {Str(FilenamePhotoPng), Str(FilenameATxt), Undef},
             b \in {Str(BranchMain), Undef},
             d \in {Str(Date20240115), Str(DateMalformed), Undef},
             m \in {Str(MetadataIdGood), Str(MetadataIdBad), Undef}}

WebhookRequests ==
    {WebhookRequest(TRUE, TRUE, p) : p \in WebhookPayloads}
    \cup {WebhookRequest(FALSE, TRUE, WebhookGoodPayload(PublicUrlStored)),
          WebhookRequest(TRUE, FALSE, NotAnObject)}

WebhookIdle == [WebhookRequest(TRUE, TRUE, NotAnObject) EXCEPT !.pc = "idle"]

WhIdle == wh = WebhookIdle

\* serve up to the first download attempt (lines 449-528 and 130-146)
WebhookServe ==
    /\ wh.pc = "recv"
    /\ LET validationErrors == validatePayload(wh.payload)
           answer(r) == wh' = [wh EXCEPT !.pc = "done", !.response = r]
       IN  IF ~wh.envOk
           THEN answer(WhResponse(500, "Server configuration error", <<>>, 0))
           ELSE IF ~wh.parses
           THEN answer(WhResponse(400, "Invalid JSON payload", <<>>, 0))
           ELSE IF Len(validationErrors) > 0
           THEN answer(WhResponse(400, "Validation failed", validationErrors, 0))
           ELSE IF wh.payload.public_url.pieces # 2
           THEN wh' = [wh EXCEPT
                          !.pc = "done",
                          !.fetchResult = WhFailure("Invalid public URL format", 0, 0),
                          !.response = WhResponse(500, "Failed to fetch image from storage",
                                                  <<"Invalid public URL format">>, 0)]
           ELSE wh' = [wh EXCEPT !.pc = "download",
                                 !.propagationWait = STORAGE_PROPAGATION_DELAY,
                                 !.download.attempt = 1]

\* one attempt of fetchImageWithSupabaseClient (lines 147-256), and serve's
\* handling of its result (lines 529-551)
WebhookDownload ==
    /\ wh.pc = "download"
    /\ \E outcome \in DownloadOutcomes :
           LET step == DownloadStep(wh.download.attempt, outcome)
               w == [wh EXCEPT !.download.calls = @ + 1,
                               !.download.history = Append(@, outcome.kind)]
           IN  IF step.next = "retry"
               THEN wh' = [w EXCEPT !.download.attempt = @ + 1,
                                    !.download.waits = Append(@, step.delay)]
               ELSE IF step.result.kind = "failure"
               THEN wh' = [w EXCEPT
                              !.pc = "done",
                              !.fetchResult = step.result,
                              !.response = WhResponse(500, "Failed to fetch image from storage",
                                                      <<step.result.error>>, 0)]
               ELSE wh' = [w EXCEPT !.pc = "relay",
                                    !.fetchResult = step.result,
                                    !.relay.attempt = 1]

\* one attempt of sendToBuildShip (lines 301-416), and serve's response
\* (lines 552-601)
WebhookRelay ==
    /\ wh.pc = "relay"
    /\ \E outcome \in RelayOutcomes :
           LET step == RelayStep(wh.relay.attempt, outcome)
               tag == IF outcome.kind = "response" THEN ToString(outcome.status)
                      ELSE outcome.kind
               w == [wh EXCEPT !.relay.calls = @ + 1,
                               !.relay.history = Append(@, tag)]
           IN  IF step.next = "retry"
               THEN wh' = [w EXCEPT !.relay.attempt = @ + 1,
                                    !.relay.waits = Append(@, step.delay)]
               ELSE IF step.result.kind = "failure"
               THEN wh' = [w EXCEPT
                              !.pc = "done",
                              !.buildShipResult = step.result,
                              !.response = WhResponse(500, "Failed to send to BuildShip",
                                                      <<step.result.error>>,
                                                      step.result.attempts)]
               ELSE wh' = [w EXCEPT
                              !.pc = "done",
                              !.buildShipResult = step.result,
                              !.response = WhResponse(200, "", <<>>, step.result.attempts)]


(***************************************************************************)
(* SpecRL: checkRateLimit for several keys on a non-decreasing clock       *)
(***************************************************************************)
ClockStep == 30000     \* the clock advances in steps of this many ms
MaxNow == 150000       \* the clock stops here
MaxSecondChecks == 2   \* checkRateLimit calls made for the second client key

\* the first key may call without bound; the calls of the second are counted
SecondIP == "10.0.0.2"

NoCheck == [key |-> "none", allowed |-> TRUE, resetTime |-> 0,
            before |-> 0, sinceLast |-> 0]

\* history, per key: the admission instants inside the trailing window, the
\* instant of the last admission (-1: none yet) and the number of calls
NoAdmissions == [ip \in ClientIPs |-> [times |-> <<>>, last |-> -1, calls |-> 0]]

FnIdle ==
    /\ fnOp = "idle"
    /\ fnArg = <<>>
    /\ fnRes = <<>>

InitRL ==
    /\ now = 0
    /\ rateLimitStore = EmptyStore
    /\ admitted = NoAdmissions
    /\ rlLast = NoCheck
    /\ FnIdle
    /\ ReqIdle
    /\ WhIdle

\* time passes; rlLast describes a call made at the current instant only
Tick ==
    /\ now + ClockStep <= MaxNow
    /\ now' = now + ClockStep
    /\ admitted' = [ip \in ClientIPs |->
                       [admitted[ip] EXCEPT
                           !.times = SelectSeq(@, LAMBDA a :
                                         now' - a < RATE_LIMIT_WINDOW)]]
    /\ rlLast' = NoCheck
    /\ UNCHANGED rateLimitStore

\* one call checkRateLimit(clientIP)
CheckRateLimit(clientIP) ==
    LET result == RateLimitResult(rateLimitStore, clientIP, now)
    IN  /\ clientIP = SecondIP => admitted[clientIP].calls < MaxSecondChecks
        /\ rateLimitStore' = RateLimitStoreAfter(rateLimitStore, clientIP, now)
        /\ rlLast' = [key |-> clientIP, allowed |-> result.allowed,
                      resetTime |-> result.resetTime,
                      before |-> Len(admitted[clientIP].times),
                      sinceLast |-> IF admitted[clientIP].last < 0 THEN -1
                                    ELSE now - admitted[clientIP].last]
        /\ admitted' =
               [admitted EXCEPT ![clientIP] =
                   [times |-> IF result.allowed THEN Append(@.times, now) ELSE @.times,
                    last |-> IF result.allowed THEN now ELSE @.last,
                    calls |-> IF clientIP = SecondIP THEN @.calls + 1 ELSE 0]]
        /\ UNCHANGED now

NextRL ==
    \/ Tick /\ UNCHANGED <<fnVars, reqVars, whVars>>
    \/ \E clientIP \in ClientIPs :
           CheckRateLimit(clientIP) /\ UNCHANGED <<fnVars, reqVars, whVars>>

SpecRL == InitRL /\ [][NextRL]_vars

\* C1: at most 30 admissions of a key lie within any 60-second span.
C1_AtMostMaxPerWindow ==
    \A ip \in ClientIPs : Len(admitted[ip].times) <= RATE_LIMIT_MAX_REQUESTS


\* C8: with exactly 30 admissions inside the trailing window the next call is
\* denied with resetTime - now > 0; once a whole window has passed since the
\* key's last admission, the next call is admitted.
C8_DeniedAtMaxAdmittedAfterWindow ==
    rlLast.key \in ClientIPs =>
        /\ rlLast.before = RATE_LIMIT_MAX_REQUESTS
               => (~rlLast.allowed /\ rlLast.resetTime - now > 0)
        /\ rlLast.sinceLast >= RATE_LIMIT_WINDOW => rlLast.allowed

(***************************************************************************)
(* SpecFn: the pure functions on bounded inputs                            *)
(***************************************************************************)
RLIdle ==
    /\ now = 0
    /\ rateLimitStore = EmptyStore
    /\ admitted = NoAdmissions
    /\ rlLast = NoCheck

InitFn ==
    /\ fnOp = "idle"
    /\ fnArg \in FnInputs \cup LoopInputs
    /\ fnRes = <<>>
    /\ RLIdle
    /\ ReqIdle
    /\ WhIdle

FnValidate ==
    /\ fnOp = "idle"
    /\ IsUploadData(fnArg)
    /\ fnOp' = "validate"
    /\ fnRes' = validateUploadData(fnArg)
    /\ UNCHANGED fnArg

FnNormalize ==
    /\ fnOp = "idle"
    /\ IsUploadData(fnArg)
    /\ fnArg.branch.t = "str"
    /\ fnOp' = "normalize"
    /\ fnRes' = normalize(fnArg.branch.v)
    /\ UNCHANGED fnArg

FnGenerate ==
    /\ fnOp = "idle"
    /\ IsUploadData(fnArg)
    /\ fnArg.filename.t = "str"
    /\ fnOp' = "generate"
    /\ \E uniqueSuffix \in UniqueSuffixes :
           fnRes' = generateFinalFilename(fnArg.filename.v, uniqueSuffix)
    /\ UNCHANGED fnArg

\* lines 364-367 for a payload that passed validateUploadData
FnStoragePath ==
    /\ fnOp = "idle"
    /\ IsUploadData(fnArg)
    /\ validateUploadData(fnArg) = <<>>
    /\ fnOp' = "path"
    /\ \E uniqueSuffix \in UniqueSuffixes :
           fnRes' = StoragePath(fnArg,
                                generateFinalFilename(fnArg.filename.v, uniqueSuffix))
    /\ UNCHANGED fnArg

\* fetchImageWithSessionHandling run over the outcomes of its attempts
FnFetchLoop ==
    /\ fnOp = "idle"
    /\ ~IsUploadData(fnArg)
    /\ fnOp' = "fetchloop"
    /\ fnRes' = FetchLoop(fnArg.maxRetries, 1, fnArg.outcomes)
    /\ UNCHANGED fnArg

NextFn ==
    \/ FnFetchLoop /\ UNCHANGED <<rlVars, reqVars, whVars>>
    \/ FnValidate /\ UNCHANGED <<rlVars, reqVars, whVars>>
    \/ FnNormalize /\ UNCHANGED <<rlVars, reqVars, whVars>>
    \/ FnGenerate /\ UNCHANGED <<rlVars, reqVars, whVars>>
    \/ FnStoragePath /\ UNCHANGED <<rlVars, reqVars, whVars>>

SpecFn == InitFn /\ [][NextFn]_vars

(***************************************************************************)
(* Claims about the pure functions, checked under SpecFn                   *)
(***************************************************************************)
\* the part of a filename before its first '.'
BaseNameOf(f) ==
    IF \E i \in DOMAIN f : f[i] = "."
    THEN SubSeq(f, 1, (CHOOSE i \in DOMAIN f :
                          f[i] = "." /\ \A j \in 1..(i - 1) : f[j] # ".") - 1)
    ELSE f

\* C3: for every filename the validator accepts, generateFinalFilename returns
\* the base name, '_', the 8-character suffix and '.jpg'.
C3_FinalFilenameShape ==
    (fnOp = "generate" /\ validFilenamePatternTest(fnArg.filename.v))
        => \E u \in UniqueSuffixes :
               fnRes = BaseNameOf(fnArg.filename.v) \o <<"_">> \o u \o DotJpg

DigitVal(c) == (CHOOSE i \in DOMAIN DigitChars : DigitChars[i] = c) - 1

\* ten characters, digits around two dashes: YYYY-MM-DD
IsDateShaped(s) ==
    /\ Len(s) = 10
    /\ \A i \in DOMAIN s : IF i \in {5, 8} THEN s[i] = "-" ELSE s[i] \in DigitSet

IsLeapYear(y) == (y % 4 = 0 /\ y % 100 # 0) \/ y % 400 = 0

DaysInMonth(y, m) ==
    IF m = 2 THEN (IF IsLeapYear(y) THEN 29 ELSE 28)
    ELSE IF m \in {4, 6, 9, 11} THEN 30 ELSE 31

IsRealCalendarDate(s) ==
    /\ IsDateShaped(s)
    /\ LET y == 1000 * DigitVal(s[1]) + 100 * DigitVal(s[2])
                + 10 * DigitVal(s[3]) + DigitVal(s[4])
           m == 10 * DigitVal(s[6]) + DigitVal(s[7])
           d == 10 * DigitVal(s[9]) + DigitVal(s[10])
       IN  m \in 1..12 /\ d >= 1 /\ d <= DaysInMonth(y, m)

HasDateViolation(errors) == ErrDate \in Range(errors) \/ ErrDateFormat \in Range(errors)

\* C6 as stated: every date that is not a real calendar date in YYYY-MM-DD
\* form is reported, and {main, 2024-13-40, a.txt} yields a date violation
\* and an extension violation.
C6_RealCalendarDateRequired ==
    fnOp = "validate" =>
        /\ (fnArg.date.t = "str" /\ ~IsRealCalendarDate(fnArg.date.v))
               => HasDateViolation(fnRes)
        /\ fnArg = PayloadBadDateBadExt
               => (HasDateViolation(fnRes) /\ ErrFilenameFormat \in Range(fnRes))

\* C6 as amended: the date is checked against the shape YYYY-MM-DD only; a
\* date violation is reported exactly for an absent or empty date ("required")
\* and for a non-empty date not of that shape ("format");
\* {main, 2024-13-40, a.txt} yields the filename violation alone.
C6_DateShapeOnly ==
    fnOp = "validate" =>
        /\ ErrDateFormat \in Range(fnRes)
               <=> (fnArg.date.t = "str" /\ fnArg.date.v # <<>>
                    /\ ~IsDateShaped(fnArg.date.v))
        /\ ErrDate \in Range(fnRes)
               <=> (fnArg.date.t # "str" \/ fnArg.date.v = <<>>)
        /\ fnArg = PayloadBadDateBadExt => fnRes = <<ErrFilenameFormat>>

C6_Witness ==
    /\ fnOp = "validate"
    /\ fnArg = PayloadBadDateBadExt
    /\ fnRes = <<ErrFilenameFormat>>

(***************************************************************************)
(* Spec: one POST request through serve                                    *)
(***************************************************************************)
Init ==
    /\ \/ /\ req \in Requests
          /\ pc = "recv"
          /\ fetch = FetchIdle
          /\ net = NetIdle
          /\ fetchResult = NoResult
          /\ proc = ProcIdle
          /\ uploadResult = NoUpload
          /\ response = NoResponse
          /\ rateLimitStore \in {EmptyStore, FullStore}
          /\ WhIdle
       \/ /\ ReqIdle
          /\ rateLimitStore = EmptyStore
          /\ wh \in WebhookRequests
    /\ now = 0
    /\ admitted = NoAdmissions
    /\ rlLast = NoCheck
    /\ FnIdle

\* serve returns a Response
Respond(r) ==
    /\ response' = r
    /\ pc' = "done"

\* Math.ceil((resetTime - Date.now()) / 1000)
RetryAfterSeconds(resetTime, t) == ((resetTime - t) + 999) \div 1000

\* Lines 480-607: the gates of a POST, up to the call of processImageUpload
ServeRequest ==
    /\ pc = "recv"
    /\ LET rateLimitResult == RateLimitResult(rateLimitStore, req.ip, now)
           validationErrors == validateUploadData(req.data)
       IN  /\ rateLimitStore' = RateLimitStoreAfter(rateLimitStore, req.ip, now)
           /\ rlLast' = [NoCheck EXCEPT !.key = req.ip,
                                        !.allowed = rateLimitResult.allowed,
                                        !.resetTime = rateLimitResult.resetTime]
           /\ IF ~rateLimitResult.allowed
              THEN Respond([ErrorResponse(429, "Rate limit exceeded") EXCEPT
                               !.retryAfter =
                                   RetryAfterSeconds(rateLimitResult.resetTime, now)])
              ELSE IF ~req.envOk
              THEN Respond(ErrorResponse(500, "Server configuration error"))
              ELSE IF ~req.auth.present \/ ~startsWith(req.auth.text, BearerPrefix)
              THEN Respond(ErrorResponse(401, "Unauthorized - Bearer token required"))
              ELSE IF ~TokenMatches(substringFrom7(req.auth.text), UploadSecret)
              THEN Respond(ErrorResponse(401, "Unauthorized - Invalid token"))
              ELSE IF req.body = "form" /\ ~req.file.present
              THEN Respond(ErrorResponse(400, "Image file is required"))
              ELSE IF req.body = "badjson"
              THEN Respond(ErrorResponse(400, "Invalid JSON in request body"))
              ELSE IF req.body = "jsonnull"
              THEN \* validateUploadData(null) throws a TypeError
                   Respond(ErrorResponse(500, "Internal server error"))
              ELSE IF validationErrors # <<>>
              THEN Respond([ErrorResponse(400, "Validation failed") EXCEPT
                               !.violations = validationErrors])
              ELSE /\ pc' = "process"
                   /\ UNCHANGED response
    /\ UNCHANGED <<req, fetch, net, fetchResult, proc, uploadResult>>

RespondUploadFailure_Status200(result) ==
    /\ uploadResult' = result
    /\ Respond([ErrorResponse(200, result.error) EXCEPT
                   !.details = result.details, !.finalUrl = result.finalUrl])

\* serve, lines 610-622: processImageUpload failed
RespondUploadFailure(result) ==
    /\ uploadResult' = result
    /\ Respond([ErrorResponse(400, result.error) EXCEPT
                   !.details = result.details, !.finalUrl = result.finalUrl])

\* Lines 356-370: size check, final filename, storage path
ContinueUpload(imageData, contentTypeHeader, uploadMode) ==
    IF validateImageSize(imageData) # ""
    THEN /\ RespondUploadFailure(
                UploadFailure(validateImageSize(imageData), NoText, FALSE, ""))
         /\ proc' = [proc EXCEPT !.has = TRUE, !.imageData = imageData,
                                 !.contentTypeHeader = contentTypeHeader,
                                 !.uploadMode = uploadMode]
    ELSE \E uniqueSuffix \in UniqueSuffixes :
             LET finalFilename ==
                     generateFinalFilename(req.data.filename.v, uniqueSuffix)
             IN  /\ proc' = [has |-> TRUE, imageData |-> imageData,
                             contentTypeHeader |-> contentTypeHeader,
                             uploadMode |-> uploadMode,
                             finalFilename |-> finalFilename,
                             storagePath |-> StoragePath(req.data, finalFilename)]
                 /\ pc' = "upload"
                 /\ UNCHANGED <<uploadResult, response>>

DirectContentType_AlwaysOctetStream(type) == OctetStream

\* imageFile.type || 'application/octet-stream'
DirectContentType(type) == IF type = NoContentType THEN OctetStream ELSE type

\* Lines 313-355: processImageUpload up to its first network call
ProcessImageUploadBegin ==
    /\ pc = "process"
    /\ IF req.file.present
       THEN /\ ContinueUpload(req.file.bytes, DirectContentType(req.file.type),
                              "direct-upload")
            /\ UNCHANGED fetch
       ELSE IF req.data.imageUrl.present
       THEN /\ pc' = "origin"
            /\ fetch' = [FetchIdle EXCEPT !.attempt = 1]
            /\ UNCHANGED <<proc, uploadResult, response>>
       ELSE /\ RespondUploadFailure(UploadFailure(ErrNoImage, NoText, FALSE, ""))
            /\ UNCHANGED <<fetch, proc>>
    /\ UNCHANGED <<req, net, fetchResult, rateLimitStore>>

(***************************************************************************)
(* What the remote origin and the store may answer                         *)
(***************************************************************************)
CookieSid == SetCookie("sid=1", "Path=/")
CookieTok == SetCookie("tok=2", "HttpOnly")
CookieBlank == SetCookie("", "Path=/")

OriginResponses ==
    {[status |-> st, setCookie |-> c] :
        st \in {200, 403},
        c \in {<<>>, <<CookieSid>>, <<CookieSid, CookieSid>>}}

ProbeResponses ==
    {[status |-> r[1], location |-> r[2], setCookie |-> c] :
        r \in {<<200, NoUrl>>, <<403, NoUrl>>, <<302, NoUrl>>,
               <<302, UrlGateway>>, <<301, UrlMoved>>},
        c \in {<<>>, <<CookieSid>>, <<CookieTok, CookieBlank>>}}

VerificationResponses ==
    {[status |-> 200, setCookie |-> c] : c \in {<<>>, <<CookieSid>>, <<CookieTok>>}}

FinalResponse(st, ct, b) ==
    [status |-> st, contentType |-> ct, body |-> b, url |-> "https://cdn.example.com/sli***"]

FinalContentTypes == {ImagePng, TextHtml, TextPlain, NoContentType}

\* a 204 comes without a body
FinalResponses ==
    {FinalResponse(st, ct, b) :
        st \in {200, 404},
        ct \in FinalContentTypes,
        b \in {BytesPng, BytesEmpty, BodyHtmlPage, BodyHtmlLate, BytesOverLimit}}
    \cup {FinalResponse(204, ct, BytesEmpty) : ct \in FinalContentTypes}
    \cup {FinalResponse(200, ImagePng, BytesAtLimit)}

(***************************************************************************)
(* fetchImageWithSessionHandling, one action per request it awaits         *)
(***************************************************************************)
Call(step, target, cookie, redirect) ==
    [step |-> step, target |-> target, cookie |-> cookie, redirect |-> redirect,
     status |-> 0]

\* the last request of the attempt was answered with this status
Answered(f, status) == [f EXCEPT !.calls[Len(f.calls)].status = status]

\* The attempt ends with `step` (of FinalStep or CatchStep); f is the fetch
\* record as the attempt leaves it, tag names how the attempt ended.
EndAttempt(step, tag, f) ==
    LET g == [f EXCEPT !.history = Append(@, tag)]
    IN  IF step.next = "return"
        THEN /\ fetchResult' = step.result
             /\ fetch' = g
             /\ pc' = "fetched"
        ELSE IF f.attempt + 1 > maxRetries
        THEN \* the loop ends and the function returns undefined
             /\ fetchResult' = [NoResult EXCEPT !.kind = "undefined"]
             /\ fetch' = g
             /\ pc' = "fetched"
        ELSE /\ fetch' = [g EXCEPT !.attempt = @ + 1,
                                   !.backoff = IF step.next = "continue" THEN 0
                                               ELSE BackoffAfter(f.attempt),
                                   !.pause = 0,
                                   !.sessionCookies = <<>>,
                                   !.allCookies = <<>>,
                                   !.targetUrl = NoUrl]
             /\ pc' = "origin"
             /\ UNCHANGED fetchResult

\* a request of the attempt, or the read of a body, is awaited and never
\* settles: no request of the function carries a signal or a timeout, so the
\* call stays suspended at its await
Stalls(f) ==
    /\ pc' = "waiting"
    /\ fetch' = f
    /\ UNCHANGED fetchResult

\* a request of the attempt throws
Throws(what, f) == EndAttempt(CatchStep(f.attempt, what), "threw", f)

\* Step 1 (lines 139-161): visit the origin; new URL(url) throws on a
\* malformed URL before any request is made
FetchOriginVisit ==
    /\ pc = "origin"
    /\ LET url == req.data.imageUrl
           f == [fetch EXCEPT !.calls = <<>>, !.final = NoFinal, !.finalAttempt = 0]
           g == [f EXCEPT !.calls = <<Call("origin", url.origin, <<>>, "follow")>>]
       IN  IF ~url.valid
           THEN Throws("Invalid URL", f) /\ UNCHANGED net
           ELSE /\ net' = [net EXCEPT !.origin = @ + 1]
                /\ \/ Throws("origin visit failed", g)
                   \/ Stalls(g)
                   \/ \E domainResponse \in OriginResponses :
                          /\ fetch' = [Answered(g, domainResponse.status)
                                           EXCEPT !.sessionCookies =
                                           extractCookies(domainResponse.setCookie)]
                          /\ pc' = "probe"
                          /\ UNCHANGED fetchResult
    /\ UNCHANGED <<req, proc, uploadResult, response, rateLimitStore>>

\* Steps 2 and 3 (lines 162-203): the probe of the image URL, redirects not
\* followed, and the decision to visit a verification page
FetchProbe ==
    /\ pc = "probe"
    /\ LET url == req.data.imageUrl
           g == [fetch EXCEPT !.calls =
                    Append(@, Call("probe", url, fetch.sessionCookies, "manual"))]
       IN  /\ net' = [net EXCEPT !.probe = @ + 1]
           /\ \/ Throws("probe failed", g)
              \/ Stalls(g)
              \/ \E initialResponse \in ProbeResponses :
                     LET additionalCookies == extractCookies(initialResponse.setCookie)
                         allCookies == Dedupe(fetch.sessionCookies \o additionalCookies)
                         hop == /\ initialResponse.status \in {301, 302}
                                /\ initialResponse.location.present
                                /\ IsVerificationUrl(initialResponse.location)
                     IN  /\ fetch' = [Answered(g, initialResponse.status) EXCEPT
                                         !.allCookies = allCookies,
                                         !.targetUrl =
                                             IF initialResponse.status \in {301, 302}
                                                /\ initialResponse.location.present
                                             THEN initialResponse.location ELSE url]
                         /\ pc' = IF hop THEN "verify" ELSE "final"
                         /\ UNCHANGED fetchResult
    /\ UNCHANGED <<req, proc, uploadResult, response, rateLimitStore>>

\* Step 3a (lines 203-227): visit the verification page, then pause 1500 ms
FetchVerification ==
    /\ pc = "verify"
    /\ LET g == [fetch EXCEPT !.calls =
                    Append(@, Call("verify", fetch.targetUrl, fetch.allCookies, "follow"))]
       IN  /\ net' = [net EXCEPT !.verify = @ + 1]
           /\ \/ Throws("verification visit failed", g)
              \/ Stalls(g)
              \/ \E verificationResponse \in VerificationResponses :
                     /\ fetch' = [g EXCEPT
                                     !.allCookies =
                                         @ \o extractCookies(verificationResponse.setCookie),
                                     !.pause = 1500]
                     /\ pc' = "final"
                     /\ UNCHANGED fetchResult
    /\ UNCHANGED <<req, proc, uploadResult, response, rateLimitStore>>

\* whether the response's body is read: text() or arrayBuffer() of a 2xx
\* response, text() of any other response on the last attempt; a null body
\* has nothing to wait for
ReadsBody(attempt, finalResponse) ==
    /\ ~HasNullBody(finalResponse.status)
    /\ IsOk(finalResponse.status) \/ IsLastAttempt(attempt)

\* What an attempt met, for the history: "threw" when one of its requests
\* threw, else the kind of its final response.
ResponseClass(finalResponse) ==
    IF finalResponse.status < 200 \/ finalResponse.status > 299 THEN "status"
    ELSE IF finalResponse.contentType.type = "image" THEN "image"
    ELSE IF \E m \in finalResponse.body.markers : m.s = "<html"
         THEN (IF finalResponse.contentType = TextHtml THEN "texthtml" ELSE "otherhtml")
         ELSE "other"

FinalTarget_FollowsRedirect(url, targetUrl) == targetUrl

\* fetch(url, finalOptions): the final request asks for the caller's URL,
\* whatever targetUrl the redirect handling computed
FinalTarget(url, targetUrl) == url

\* Step 4 (lines 230-293): the final request of the image URL and what its
\* response leads to
FetchFinal ==
    /\ pc = "final"
    /\ LET url == req.data.imageUrl
           g == [fetch EXCEPT !.calls =
                    Append(@, Call("final", FinalTarget(url, fetch.targetUrl),
                                   Dedupe(fetch.allCookies), "follow"))]
       IN  /\ net' = [net EXCEPT !.final = @ + 1]
           /\ \/ Throws("final request failed", g)
              \/ Stalls(g)
              \/ \E finalResponse \in FinalResponses :
                     LET h == [g EXCEPT !.final = finalResponse,
                                        !.finalAttempt = fetch.attempt]
                         step == FinalStep(fetch.attempt, finalResponse)
                     IN  \/ IF step.next = "throw"
                            THEN EndAttempt(CatchStep(fetch.attempt, "Body already consumed"),
                                            ResponseClass(finalResponse), h)
                            ELSE EndAttempt(step, ResponseClass(finalResponse), h)
                         \/ \* the body is read (lines 259, 274, 285) and never ends
                            \* nothing of the body is ever known
                            /\ ReadsBody(fetch.attempt, finalResponse)
                            /\ Stalls([g EXCEPT !.finalAttempt = fetch.attempt])
    /\ UNCHANGED <<req, proc, uploadResult, response, rateLimitStore>>

(***************************************************************************)
(* processImageUpload after the fetch, the store write, serve's response   *)
(***************************************************************************)
\* Lines 326-349 and 356-370: the fetch has returned
ProcessFetchResult ==
    /\ pc = "fetched"
    /\ IF fetchResult.kind = "undefined"
       THEN \* fetchResult.success throws a TypeError, caught by serve
            /\ Respond(ErrorResponse(500, "Internal server error"))
            /\ UNCHANGED <<proc, uploadResult>>
       ELSE IF fetchResult.kind = "failure"
       THEN /\ RespondUploadFailure(FetchFailureReport(fetchResult))
            /\ UNCHANGED proc
       ELSE ContinueUpload(fetchResult.data, fetchResult.contentType, "url-upload")
    /\ fetch' = [fetch EXCEPT !.sessionCookies = <<>>, !.allCookies = <<>>,
                              !.targetUrl = NoUrl, !.calls = <<>>]
    /\ UNCHANGED <<req, net, fetchResult, rateLimitStore>>

\* Lines 371-398 and 610-638: the store write and the response
StoreUpload ==
    /\ pc = "upload"
    /\ net' = [net EXCEPT !.store = @ + 1]
    /\ \/ RespondUploadFailure(
              UploadFailure(ErrStorage, ErrorMessage("storage error"), FALSE, ""))
       \/ /\ uploadResult' = [NoUpload EXCEPT
                                 !.kind = "success",
                                 !.storagePath = proc.storagePath,
                                 !.finalFilename = proc.finalFilename,
                                 !.imageSizeBytes = proc.imageData.size,
                                 !.uploadMode = proc.uploadMode]
          /\ Respond([NoResponse EXCEPT
                         !.status = 200,
                         !.message = "Upload successful",
                         !.storagePath = proc.storagePath,
                         !.finalFilename = proc.finalFilename,
                         !.imageSizeBytes = proc.imageData.size,
                         !.uploadMode = proc.uploadMode])
    /\ UNCHANGED <<req, fetch, fetchResult, proc, rateLimitStore>>

Next ==
    \/ ServeRequest /\ UNCHANGED <<fnVars, now, admitted, whVars>>
    \/ ProcessImageUploadBegin /\ UNCHANGED <<fnVars, now, admitted, rlLast, whVars>>
    \/ FetchOriginVisit /\ UNCHANGED <<fnVars, now, admitted, rlLast, whVars>>
    \/ FetchProbe /\ UNCHANGED <<fnVars, now, admitted, rlLast, whVars>>
    \/ FetchVerification /\ UNCHANGED <<fnVars, now, admitted, rlLast, whVars>>
    \/ FetchFinal /\ UNCHANGED <<fnVars, now, admitted, rlLast, whVars>>
    \/ ProcessFetchResult /\ UNCHANGED <<fnVars, now, admitted, rlLast, whVars>>
    \/ StoreUpload /\ UNCHANGED <<fnVars, now, admitted, rlLast, whVars>>
    \/ WebhookServe /\ UNCHANGED <<fnVars, rlVars, reqVars>>
    \/ WebhookDownload /\ UNCHANGED <<fnVars, rlVars, reqVars>>
    \/ WebhookRelay /\ UNCHANGED <<fnVars, rlVars, reqVars>>

Spec == Init /\ [][Next]_vars

(***************************************************************************)
(* SpecCancel: the client may close the inbound request while a retry loop *)
(* of its handler is in progress                                           *)
(***************************************************************************)
\* req.signal fires; neither handler reads it or passes it on
CancelUpload ==
    /\ pc \in {"origin", "probe", "verify", "final"}
    /\ ~req.cancelled
    /\ req' = [req EXCEPT !.cancelled = TRUE]
    /\ UNCHANGED <<pc, fetch, net, fetchResult, proc, uploadResult, response>>

CancelWebhook ==
    /\ wh.pc \in {"download", "relay"}
    /\ ~wh.cancelled
    /\ wh' = [wh EXCEPT !.cancelled = TRUE]

\* one upload by URL, or one webhook call with a valid payload
InitCancel ==
    /\ Init
    /\ \/ /\ req = Request(TRUE, GoodAuth, "json", GoodPayload(UrlSlip), NoFile)
          /\ rateLimitStore = EmptyStore
       \/ wh = WebhookRequest(TRUE, TRUE, WebhookGoodPayload(PublicUrlStored))

NextCancel ==
    \/ Next
    \/ CancelUpload /\ UNCHANGED <<fnVars, rlVars, whVars>>
    \/ CancelWebhook /\ UNCHANGED <<fnVars, rlVars, reqVars>>

SpecCancel == InitCancel /\ [][NextCancel]_vars

\* The runtime runs a handler whenever it has a step to take: a request that
\* is not suspended at an await that cannot settle makes progress.
SpecLive == Spec /\ WF_vars(Next)

(***************************************************************************)
(* Claims about the session fetch and the upload, checked under Spec       *)
(***************************************************************************)
FetchPcs == {"origin", "probe", "verify", "final"}

\* the final response of the attempt just made
FinalIs2xx == fetch.finalAttempt > 0 /\ fetch.final.status \in 200..299
FinalIsImage == fetch.final.contentType.type = "image"
FinalHasHtml ==
    \E m \in fetch.final.body.markers : m.s \in {"<!DOCTYPE html", "<html"}

\* C2: a 2xx final response that is neither an image nor HTML is returned as
\* Success with the body bytes and the content type application/octet-stream.
C2_NonImageBodyAccepted ==
    (FinalIs2xx /\ ~FinalIsImage /\ ~FinalHasHtml)
        => /\ pc \notin FetchPcs
           /\ fetchResult.kind = "success"
           /\ fetchResult.data = fetch.final.body
           /\ fetchResult.contentType = [type |-> "application", subtype |-> "octet-stream"]

\* C10: a 2xx final response with an image/ content type is returned as
\* Success with its body and that content type in the same attempt, whatever
\* cookies were collected, and no further attempt starts.
C10_ImageResponseSucceeds ==
    (FinalIs2xx /\ FinalIsImage)
        => /\ pc \notin FetchPcs
           /\ fetch.attempt = fetch.finalAttempt
           /\ fetchResult.kind = "success"
           /\ fetchResult.data = fetch.final.body
           /\ fetchResult.contentType = fetch.final.contentType

\* an image came on the second attempt, with cookies collected on the way
C10_Witness ==
    /\ pc = "fetched"
    /\ FinalIs2xx /\ FinalIsImage
    /\ fetch.attempt = 2
    /\ Len(fetch.allCookies) = 2
    /\ fetchResult.kind = "success"

FetchReturned == fetchResult.kind # "none"

AllTextHtml(history) == \A i \in DOMAIN history : history[i] = "texthtml"

\* C9: when every attempt ends in a 2xx text/html page containing '<html',
\* exactly maxRetries attempts are made and the bot-protection failure is
\* returned; that failure is never returned after fewer attempts.
C9_HtmlChallengeExhaustsAttempts ==
    /\ (FetchReturned /\ AllTextHtml(fetch.history))
           => /\ fetchResult.kind = "failure"
              /\ fetchResult.error = ErrBotProtection
              /\ Len(fetch.history) = maxRetries
              /\ net.final = maxRetries
    /\ (~FetchReturned /\ AllTextHtml(fetch.history))
           => Len(fetch.history) < maxRetries
    /\ (fetchResult.kind = "failure" /\ fetchResult.error = ErrBotProtection)
           => fetch.attempt = maxRetries /\ Len(fetch.history) = maxRetries

C9_Witness ==
    /\ pc = "fetched"
    /\ fetch.history = <<"texthtml", "texthtml", "texthtml">>
    /\ fetchResult.error = ErrBotProtection
    /\ net.final = 3

\* C5: in URL mode the bot-protection explanation is returned exactly when
\* the fetch failed on a 2xx HTML challenge page in its last attempt; a
\* non-2xx final status or a network error gets the generic report.
C5_BotExplanationOnlyForChallenge ==
    (uploadResult.kind = "failure" /\ fetchResult.kind = "failure")
        => ((uploadResult.error = ErrBotDetected /\ uploadResult.suggestion)
               <=> fetch.history[Len(fetch.history)] \in {"texthtml", "otherhtml"})

\* C4: image data of length 0 is rejected and never reaches the store write.
C4_EmptyRejected ==
    (proc.has /\ proc.imageData.size = 0)
        => /\ pc # "upload"
           /\ net.store = 0
           /\ pc = "done" => uploadResult.kind = "failure"

IsFeatureXUpload ==
    /\ req.body = "form"
    /\ req.file.present
    /\ req.data.branch = Str(BranchFeatureX)
    /\ req.data.date = Str(Date20240115)
    /\ req.data.filename = Str(FilenamePhotoPng)

PathWithBranch(branchSegment, suffix) ==
    branchSegment \o <<"/">> \o Date20240115 \o <<"/">>
        \o <<"p","h","o","t","o","_">> \o suffix \o <<".","j","p","g">>

\* C7 as stated: the direct upload of photo.png for branch "Feature/X", date
\* 2024-01-15 answers 200 with the path feature-x/2024-01-15/photo_<8>.jpg.
C7_PathFeatureDashX ==
    (IsFeatureXUpload /\ response.status = 200)
        => \E u \in UniqueSuffixes :
               response.storagePath =
                   PathWithBranch(<<"f","e","a","t","u","r","e","-","x">>, u)

\* C7 as amended: normalize strips the '/', so the branch segment is
\* 'featurex': the path handed to the store and carried by the 200 response
\* is featurex/2024-01-15/photo_<8>.jpg.
C7_PathFeatureX ==
    /\ (IsFeatureXUpload /\ pc = "upload")
           => \E u \in UniqueSuffixes :
                  proc.storagePath =
                      PathWithBranch(<<"f","e","a","t","u","r","e","x">>, u)
    /\ (IsFeatureXUpload /\ response.status = 200)
           => /\ response.storagePath = proc.storagePath
              /\ \E u \in UniqueSuffixes :
                     response.storagePath =
                         PathWithBranch(<<"f","e","a","t","u","r","e","x">>, u)

C7_Witness ==
    /\ IsFeatureXUpload
    /\ req.file.bytes.size = 2 * 1024 * 1024
    /\ pc = "done"
    /\ response.status = 200
    /\ net.store = 1

(***************************************************************************)
(* Claims about the webhook's loops, checked under Spec                    *)
(***************************************************************************)
TerminalRelayTags == {"400", "404"}
RetryableRelayTags == {"429", "500", "503"}

LastOf(history) == history[Len(history)]

\* C11: in sendToBuildShip a 4xx response other than 429 on attempt k ends
\* the operation at once: attempt k+1 is never made, no delay is taken after
\* attempt k, and the failure reports attempts = k.
C11_ClientErrorEndsRelay ==
    (wh.relay.history # <<>> /\ LastOf(wh.relay.history) \in TerminalRelayTags)
        => LET k == Len(wh.relay.history)
           IN  /\ wh.pc = "done"
               /\ wh.relay.attempt = k
               /\ wh.relay.calls = k
               /\ Len(wh.relay.waits) = k - 1
               /\ wh.buildShipResult.kind = "failure"
               /\ wh.buildShipResult.attempts = k
               /\ wh.response.status = 500
               /\ wh.response.attempts = k

\* a 404 on the second attempt, after a retried 503
C11_Witness ==
    /\ wh.relay.history = <<"503", "404">>
    /\ wh.pc = "done"
    /\ wh.buildShipResult.attempts = 2
    /\ wh.relay.calls = 2

AllIn(history, tags) == \A i \in DOMAIN history : history[i] \in tags

RetryableFetchTags == {"status", "threw"}
RetryableDownloadTags == {"error", "nodata"}

\* C12: when every attempt of a retry loop ends in a retryable failure (non-2xx
\* final status or thrown error for the session fetch, 429 or 5xx for the
\* relay, storage error or missing data for the store download), the loop
\* makes exactly its maximum of attempts (3, 2 and 2) and then returns a
\* failure; the relay and the download report attempts = MAX_RETRIES.
C12_RetryableEveryAttemptExhausts ==
    /\ AllIn(fetch.history, RetryableFetchTags)
           => IF FetchReturned
              THEN /\ fetchResult.kind = "failure"
                   /\ Len(fetch.history) = maxRetries
                   /\ fetch.attempt = maxRetries
              ELSE Len(fetch.history) < maxRetries
    /\ AllIn(wh.relay.history, RetryableRelayTags)
           => IF wh.pc = "relay"
              THEN Len(wh.relay.history) < MAX_RETRIES
              ELSE wh.relay.history # <<>>
                       => /\ wh.relay.calls = MAX_RETRIES
                          /\ wh.buildShipResult.kind = "failure"
                          /\ wh.buildShipResult.attempts = MAX_RETRIES
                          /\ wh.response.status = 500
    /\ AllIn(wh.download.history, RetryableDownloadTags)
           => IF wh.pc = "download"
              THEN Len(wh.download.history) < MAX_RETRIES
              ELSE wh.download.history # <<>>
                       => /\ wh.download.calls = MAX_RETRIES
                          /\ wh.fetchResult.kind = "failure"
                          /\ wh.fetchResult.attempts = MAX_RETRIES
                          /\ wh.relay.calls = 0

\* the session fetch exhausted by a 404, a thrown error and a 404
C12_Witness ==
    /\ fetch.history = <<"status", "threw", "status">>
    /\ fetchResult.kind = "failure"
    /\ net.final >= 2

\* the relay exhausted by a 429 and a 503
C12_RelayExhausted ==
    /\ wh.relay.history = <<"429", "503">>
    /\ wh.buildShipResult.attempts = MAX_RETRIES

\* the download exhausted by a storage error and missing data
C12_DownloadExhausted ==
    /\ wh.download.history = <<"error", "nodata">>
    /\ wh.fetchResult.attempts = MAX_RETRIES

(***************************************************************************)
(* Claims about the gates of serve, checked under Spec                     *)
(***************************************************************************)
IsUploadRequest == pc # "idle"

HasGoodAuthorization ==
    /\ req.auth.present
    /\ req.auth.text = <<"B", "e", "a", "r", "e", "r", " ", "s", "3", "c", "r", "3", "t">>

NoUploadTraffic ==
    /\ net.origin = 0 /\ net.probe = 0 /\ net.verify = 0 /\ net.final = 0
    /\ net.store = 0

\* C13 as stated: a POST is answered 200 only with 'Bearer ' + the secret,
\* and a request whose token is missing or wrong is answered 401 and causes
\* no origin fetch and no store write.
C13_BadTokenAnswered401 ==
    /\ (IsUploadRequest /\ response.status = 200) => HasGoodAuthorization
    /\ (IsUploadRequest /\ ~HasGoodAuthorization)
           => /\ NoUploadTraffic
              /\ pc = "done" => response.status = 401

\* C13 as amended: a POST is answered 200 only with 'Bearer ' + the secret; a
\* request whose token is missing or wrong causes no origin fetch and no
\* store write and is answered 401, unless a gate that comes before the token
\* check refused it: 429 from the rate limiter, 500 for a missing
\* environment variable.
C13_BadTokenNeverServed ==
    /\ (IsUploadRequest /\ response.status = 200) => HasGoodAuthorization
    /\ (IsUploadRequest /\ ~HasGoodAuthorization)
           => /\ NoUploadTraffic
              /\ pc \in {"recv", "done"}
              /\ pc = "done" =>
                     /\ response.status \in {401, 429, 500}
                     /\ response.status = 429 => ~rlLast.allowed
              /\ (pc = "done" /\ req.envOk /\ response.status # 429)
                     => response.status = 401

\* the secret followed by one more character is answered 401
C13_Witness ==
    /\ IsUploadRequest
    /\ req.auth.present
    /\ req.auth.text = <<"B", "e", "a", "r", "e", "r", " ", "s", "3", "c", "r", "3", "t", "x">>
    /\ pc = "done"
    /\ response.status = 401
    /\ NoUploadTraffic

HandlingUntouched ==
    /\ NoUploadTraffic
    /\ fetchResult = NoResult
    /\ proc = ProcIdle
    /\ uploadResult = NoUpload
    /\ response.violations = <<>>

\* C14: the rate limiter is the first gate of every POST: a request whose
\* checkRateLimit call is denied is answered 429 with a Retry-After value, and
\* for it no token check, payload validation, origin fetch or store write
\* takes place.
C14_DeniedAnswered429First ==
    /\ (IsUploadRequest /\ rlLast.key = req.ip /\ ~rlLast.allowed)
           => /\ pc = "done"
              /\ response.status = 429
              /\ response.retryAfter >= 1
              /\ response.retryAfter * 1000 >= rlLast.resetTime - now
              /\ HandlingUntouched
    /\ (IsUploadRequest /\ pc # "recv" /\ rateLimitStore = FullStore)
           => /\ rlLast.key = req.ip /\ ~rlLast.allowed
              /\ response.status = 429
    /\ (IsUploadRequest /\ pc # "recv") => rlLast.key = req.ip

\* a denied request that also lacks the token and carries an invalid payload
C14_Witness ==
    /\ IsUploadRequest
    /\ ~rlLast.allowed
    /\ ~req.auth.present
    /\ response.status = 429
    /\ response.retryAfter = 60

\* the same for a denied request whose payload fails validation
C14_DeniedInvalidPayload ==
    /\ IsUploadRequest
    /\ ~rlLast.allowed
    /\ validateUploadData(req.data) # <<>>
    /\ response.status = 429

TenMiB == 10485760

\* C15: image data longer than 10 MiB are rejected with the size failure
\* and never reach the store write, in direct mode and in URL mode alike;
\* data of exactly 10 MiB are accepted.
C15_OverTenMiBRejected ==
    /\ (proc.has /\ proc.imageData.size > TenMiB)
           => /\ pc = "done"
              /\ net.store = 0
              /\ uploadResult.kind = "failure"
              /\ uploadResult.error = "Image too large. Maximum size is 10MB"
              /\ response.status = 400
    /\ (proc.has /\ proc.imageData.size = TenMiB)
           => /\ pc \in {"upload", "done"}
              /\ uploadResult.error # "Image too large. Maximum size is 10MB"
              /\ pc = "done" => net.store = 1
    /\ (pc = "upload" \/ net.store > 0) => proc.imageData.size <= TenMiB

\* 10 MiB + 1 byte fetched from a URL and refused
C15_Witness ==
    /\ proc.has
    /\ proc.uploadMode = "url-upload"
    /\ proc.imageData.size = TenMiB + 1
    /\ response.status = 400
    /\ net.store = 0

\* exactly 10 MiB stored, in either mode
C15_AtLimitStoredDirect ==
    /\ proc.uploadMode = "direct-upload" /\ proc.imageData.size = TenMiB
    /\ response.status = 200
C15_AtLimitStoredFromUrl ==
    /\ proc.uploadMode = "url-upload" /\ proc.imageData.size = TenMiB
    /\ response.status = 200
C15_OverLimitRefusedDirect ==
    /\ proc.uploadMode = "direct-upload" /\ proc.imageData.size = TenMiB + 1
    /\ response.status = 400

(***************************************************************************)
(* Claims about validateUploadData and normalize, checked under SpecFn     *)
(***************************************************************************)
Occurrences(list, x) == Cardinality({i \in DOMAIN list : list[i] = x})

IsPresent(field) == field.t = "str" /\ Len(field.v) > 0

\* the five rules; a pattern rule applies to a value that is present
ViolatedRules(data) ==
    (IF ~IsPresent(data.branch) THEN {"branch is required"} ELSE {})
    \cup (IF ~IsPresent(data.date) THEN {"date is required"} ELSE {})
    \cup (IF ~IsPresent(data.filename) THEN {"filename is required"} ELSE {})
    \cup (IF IsPresent(data.date) /\ ~IsDateShaped(data.date.v)
          THEN {"Date must be in YYYY-MM-DD format"} ELSE {})
    \cup (IF IsPresent(data.filename) /\ ~validFilenamePatternTest(data.filename.v)
          THEN {"Filename format invalid"} ELSE {})

\* C16: validateUploadData checks every rule independently and never stops
\* at the first failure: the list it returns holds one violation for each
\* violated rule (branch present, date present, filename present, date
\* pattern, filename pattern) and is empty exactly when no rule is violated.
C16_EveryViolationReported ==
    fnOp = "validate"
        => /\ \A i \in DOMAIN fnRes : fnRes[i] \in ViolatedRules(fnArg)
           /\ \A rule \in ViolatedRules(fnArg) : Occurrences(fnRes, rule) = 1
           /\ Len(fnRes) = Cardinality(ViolatedRules(fnArg))
           /\ (fnRes = <<>>) <=> (ViolatedRules(fnArg) = {})

\* three rules violated at once: branch absent, date and filename malformed
C16_Witness ==
    /\ fnOp = "validate"
    /\ ~IsPresent(fnArg.branch)
    /\ fnRes = <<"branch is required", "Date must be in YYYY-MM-DD format",
                 "Filename format invalid">>

(***************************************************************************)
(* Claims about validation and the network, checked under Spec             *)
(***************************************************************************)
IsWebhookRequest == wh.pc # "idle"

\* the webhook payload breaks one of validatePayload's rules
WebhookPayloadInvalid(payload) ==
    \/ ~payload.isObject
    \/ /\ payload.isObject
       /\ \/ ~payload.public_url.present
          \/ ~payload.public_url.valid
          \/ payload.public_url.words \cap {"supabase.co", "storage"} = {}
          \/ \E field \in {payload.filename, payload.branch, payload.date,
                           payload.metadataId} : ~IsPresent(field)
          \/ ~IsDateShaped(payload.date.v)
          \/ ~validFilenamePatternTest(payload.filename.v)
          \/ ~uuidRegexTest(payload.metadataId.v)

NoWebhookTraffic == wh.download.calls = 0 /\ wh.relay.calls = 0

\* C17: for a request whose payload fails validation no outbound network
\* call is made at any point of its handling: no origin fetch, no store
\* write or read, no relay POST; for the upload endpoint and the webhook.
C17_InvalidPayloadNoNetwork ==
    /\ (IsUploadRequest /\ req.body \in {"form", "json"}
            /\ ViolatedRules(req.data) # {})
           => /\ NoUploadTraffic
              /\ pc \in {"recv", "done"}
              /\ response.status # 200
    /\ (IsWebhookRequest /\ wh.parses /\ WebhookPayloadInvalid(wh.payload))
           => /\ NoWebhookTraffic
              /\ wh.pc \in {"recv", "done"}
              /\ wh.response.status # 200
    /\ response.violations # <<>> => NoUploadTraffic
    /\ wh.response.error = "Validation failed" => NoWebhookTraffic

\* an authorised URL upload with an invalid payload, answered 400
C17_Witness ==
    /\ IsUploadRequest
    /\ req.data.imageUrl.present
    /\ ViolatedRules(req.data) # {}
    /\ HasGoodAuthorization
    /\ response.status = 400
    /\ response.violations # <<>>
    /\ NoUploadTraffic

\* a webhook whose only fault is a metadataId that is no UUID, answered 400
C17_WebhookRefused ==
    /\ wh.payload = WebhookPayload(PublicUrlStored, Str(FilenamePhotoPng),
                                   Str(BranchMain), Str(Date20240115),
                                   Str(MetadataIdBad))
    /\ wh.response.status = 400
    /\ NoWebhookTraffic

\* C18: normalize is idempotent, normalize(normalize(s)) = normalize(s),
\* and its result contains only characters of [a-z0-9-].
C18_NormalizeIdempotentSlug ==
    fnOp = "normalize"
        => /\ normalize(fnRes) = fnRes
           /\ \A i \in DOMAIN fnRes :
                  fnRes[i] \in LowerSet \cup DigitSet \cup {"-"}
           /\ Len(fnRes) <= Len(fnArg.branch.v)

\* ' My  Branch ' becomes 'my-branch'
C18_Witness ==
    /\ fnOp = "normalize"
    /\ fnArg.branch.v = <<" ","M","y"," "," ","B","r","a","n","c","h"," ">>
    /\ fnRes = <<"m","y","-","b","r","a","n","c","h">>

\* 'F/x' loses its slash and its capital
C18_SlashStripped ==
    /\ fnOp = "normalize"
    /\ fnArg.branch.v = <<"F", "/", "x">>
    /\ fnRes = <<"f", "x">>

\* C19: for every call with maxRetries >= 1 and every combination of
\* per-attempt outcomes (image, HTML page, other body, non-2xx status, thrown
\* error) fetchImageWithSessionHandling returns a tagged result, success or
\* failure; the exit below its loop, which returns undefined, is never taken.
C19_AlwaysTaggedResult ==
    fnOp = "fetchloop"
        => /\ fnRes.kind \in {"success", "failure"}
           /\ fnRes.attempts \in 1..fnArg.maxRetries
           /\ fnRes.kind = "failure" => fnRes.attempts = fnArg.maxRetries

\* three attempts that end in an HTML page, a thrown error and another body
C19_Witness ==
    /\ fnOp = "fetchloop"
    /\ fnArg.maxRetries = 3
    /\ fnArg.outcomes = <<"html", "threw", "other">>
    /\ fnRes = [kind |-> "failure", attempts |-> 3]

\* a call with maxRetries = 1 whose only attempt meets an HTML page
C19_SingleAttempt ==
    /\ fnOp = "fetchloop"
    /\ fnArg.maxRetries = 1
    /\ fnArg.outcomes = <<"html">>
    /\ fnRes = [kind |-> "failure", attempts |-> 1]

\* the same under Spec, for the call processImageUpload makes: the fetch
\* never hands back the undefined result
C19_NeverUndefinedInRequest ==
    /\ fetchResult.kind \in {"none", "success", "failure"}
    /\ fetchResult.kind = "success" => fetchResult.contentType # NoContentType
    /\ fetchResult.kind = "failure" => fetchResult.error # ""
    /\ pc \in {"fetched", "upload"} /\ req.data.imageUrl.present
           => fetchResult.kind \in {"success", "failure"}

(***************************************************************************)
(* Claims about the delays between attempts, checked under Spec            *)
(***************************************************************************)
LinearWaits(waits) == \A k \in DOMAIN waits : waits[k] = 1000 * k

\* C20: in every retry loop (session fetch, store download, relay POST)
\* attempt k+1 starts only after a delay of 1000 ms x k since attempt k
\* failed, for every kind of retryable failure: non-2xx status, thrown
\* transport error, timeout/abort, HTML challenge page.
C20_LinearBackoffBeforeEveryRetry ==
    /\ (pc \in FetchPcs /\ fetch.attempt > 1)
           => fetch.backoff = 1000 * (fetch.attempt - 1)
    /\ (wh.relay.attempt > 1)
           => /\ Len(wh.relay.waits) = wh.relay.attempt - 1
              /\ LinearWaits(wh.relay.waits)
    /\ (wh.download.attempt > 1)
           => /\ Len(wh.download.waits) = wh.download.attempt - 1
              /\ LinearWaits(wh.download.waits)

\* the part of C20 that holds: every retry but the one after an HTML
\* challenge page waits 1000 ms x k
C20_BackoffExceptAfterHtml ==
    /\ (pc \in FetchPcs /\ fetch.attempt > 1)
           => IF LastOf(fetch.history) \in {"texthtml", "otherhtml"}
              THEN fetch.backoff = 0
              ELSE fetch.backoff = 1000 * (fetch.attempt - 1)
    /\ (wh.relay.attempt > 1)
           => /\ Len(wh.relay.waits) = wh.relay.attempt - 1
              /\ LinearWaits(wh.relay.waits)
    /\ (wh.download.attempt > 1)
           => /\ Len(wh.download.waits) = wh.download.attempt - 1
              /\ LinearWaits(wh.download.waits)

(***************************************************************************)
(* Claims about the sweep of the rate limiter, checked under SpecRL        *)
(***************************************************************************)
\* C21: the sweep inside checkRateLimit evicts an entry only if its most
\* recent admission is older than 2 x window; an entry that holds an
\* admission inside the trailing window, the entry of the key being checked
\* included, is never removed from the store.
C21_SweepKeepsRecentEntries ==
    \A ip \in ClientIPs :
        /\ (admitted[ip].last >= 0 /\ now - admitted[ip].last <= 2 * RATE_LIMIT_WINDOW)
               => ip \in DOMAIN rateLimitStore
        /\ admitted[ip].times # <<>>
               => /\ ip \in DOMAIN rateLimitStore
                  /\ \A i \in DOMAIN admitted[ip].times :
                         \E j \in DOMAIN rateLimitStore[ip].requests :
                             rateLimitStore[ip].requests[j] = admitted[ip].times[i]

(***************************************************************************)
(* Claims about the requests of one attempt of the session fetch           *)
(***************************************************************************)
NoRepeats(list) == \A i, j \in DOMAIN list : list[i] = list[j] => i = j

CallsOf(step) == {i \in DOMAIN fetch.calls : fetch.calls[i].step = step}

\* C22: every Cookie header sent by the session fetch, in the probe, the
\* verification hop and the final fetch, contains each captured cookie
\* string at most once.
C22_NoCookieSentTwice ==
    \A i \in DOMAIN fetch.calls :
        fetch.calls[i].step \in {"probe", "verify", "final"}
            => NoRepeats(fetch.calls[i].cookie)

\* what does hold: the merge after the probe and the final request de-duplicate
C22_DedupedAfterProbe ==
    \A i \in CallsOf("verify") \cup CallsOf("final") : NoRepeats(fetch.calls[i].cookie)

\* C23: fetchImageWithSessionHandling eventually returns a result for every
\* call, even when a remote origin accepts a request at one of its steps
\* and never responds.
C23_FetchEventuallyReturns == (pc = "origin") ~> (pc = "fetched")

RECURSIVE StepsOf(_)
StepsOf(calls) ==
    IF calls = <<>> THEN <<>> ELSE <<Head(calls).step>> \o StepsOf(Tail(calls))

IsPrefix(s, t) == Len(s) <= Len(t) /\ SubSeq(t, 1, Len(s)) = s

\* C24: within each attempt the requests are issued in the order origin
\* visit, probe of the target URL with redirects not followed, optional
\* verification hop, final fetch; the final fetch is issued also when the
\* origin visit returned a non-2xx status, and it always targets the
\* caller-supplied URL, also when the probe returned a 301/302 redirect.
C24_RequestOrderAndFinalTarget ==
    LET url == req.data.imageUrl
        steps == StepsOf(fetch.calls)
    IN  /\ \/ IsPrefix(steps, <<"origin", "probe", "final">>)
           \/ IsPrefix(steps, <<"origin", "probe", "verify", "final">>)
        /\ \A i \in CallsOf("origin") : fetch.calls[i].target = url.origin
        /\ \A i \in CallsOf("probe") :
               fetch.calls[i].target = url /\ fetch.calls[i].redirect = "manual"
        /\ \A i \in CallsOf("verify") :
               /\ fetch.calls[2].status \in {301, 302}
               /\ IsVerificationUrl(fetch.calls[i].target)
               /\ pc = "final" => fetch.calls[i].target = fetch.targetUrl
        /\ \A i \in CallsOf("final") : fetch.calls[i].target = url
        \* an attempt none of whose requests threw has issued the final fetch
        /\ (pc = "fetched" /\ LastOf(fetch.history) # "threw")
               => CallsOf("final") # {}
        \* whatever the origin visit and the probe were answered, the final
        \* fetch is the next request but for the verification hop
        /\ (pc = "final") => Len(fetch.calls) \in {2, 3}

\* the origin visit was refused, the probe was redirected elsewhere, and the
\* final fetch asked for the caller's URL all the same
C24_Witness ==
    /\ pc = "fetched"
    /\ Len(fetch.calls) = 3
    /\ fetch.calls[1].status = 403
    /\ fetch.calls[2].status = 301
    /\ fetch.targetUrl = UrlMoved
    /\ fetch.calls[3].step = "final"
    /\ fetch.calls[3].target = req.data.imageUrl
    /\ fetch.targetUrl # req.data.imageUrl

(***************************************************************************)
(* Claims about the relay's per-attempt timeout                            *)
(***************************************************************************)
\* C25: a relay attempt aborted by the per-attempt timeout is retried if and
\* only if attempts remain; when the last allowed attempt is aborted,
\* sendToBuildShip returns a terminal timeout failure with attempts =
\* MAX_RETRIES and sends no further POST.
C25_AbortRetriedWhileAttemptsRemain ==
    \A i \in DOMAIN wh.relay.history :
        wh.relay.history[i] = "abort"
            => IF i < MAX_RETRIES
               THEN \* attempt i+1 is under way or was made
                    /\ wh.relay.attempt > i
                    /\ Len(wh.relay.waits) >= i
                    /\ wh.relay.waits[i] = RETRY_DELAY_BASE
                    /\ (wh.pc = "done" => wh.relay.calls > i)
               ELSE /\ wh.pc = "done"
                    /\ wh.buildShipResult = WhFailure("BuildShip timeout", MAX_RETRIES, 0)
                    /\ wh.response.status = 500
                    /\ wh.response.attempts = MAX_RETRIES
                    /\ wh.relay.calls = MAX_RETRIES
                    /\ Len(wh.relay.history) = MAX_RETRIES

\* every attempt of the relay ran into the timeout
C25_Witness ==
    /\ wh.pc = "done"
    /\ Len(wh.relay.history) = MAX_RETRIES
    /\ \A i \in DOMAIN wh.relay.history : wh.relay.history[i] = "abort"
    /\ wh.buildShipResult.error = "BuildShip timeout"

(***************************************************************************)
(* Claims about a cancelled inbound request, checked under SpecCancel      *)
(***************************************************************************)
\* C26: once the inbound request is cancelled or closed while its session
\* fetch or its relay retry loop is in progress, no further attempt and no
\* further network call is started for that request.
C26_NothingStartedAfterCancel ==
    [][ /\ req.cancelled => (net' = net /\ fetch'.attempt = fetch.attempt)
        /\ wh.cancelled => /\ wh'.download.calls = wh.download.calls
                           /\ wh'.relay.calls = wh.relay.calls
                           /\ wh'.relay.attempt = wh.relay.attempt ]_vars

(***************************************************************************)
(* Claims about interleaved checks of one key, checked under SpecRL        *)
(***************************************************************************)
\* the timestamps of a key's entry that lie inside the trailing window
StoredInWindow(ip) ==
    IF ip \in DOMAIN rateLimitStore
    THEN SelectSeq(rateLimitStore[ip].requests, LAMBDA a : now - a < RATE_LIMIT_WINDOW)
    ELSE <<>>

\* C27: checkRateLimit runs atomically, so after any interleaving of the
\* requests of a key each admitted check's timestamp is recorded in the
\* key's entry: no admission is lost and none is counted twice.
C27_EveryAdmissionRecordedOnce ==
    \A ip \in ClientIPs : StoredInWindow(ip) = admitted[ip].times

\* what the interleaving alone cannot break: no timestamp is ever stored
\* that was not an admission, so none is counted twice
C27_NothingCountedTwice ==
    \A ip \in ClientIPs : Len(StoredInWindow(ip)) <= Len(admitted[ip].times)

(***************************************************************************)
(* Claims about serve's answers and the store write, checked under Spec    *)
(***************************************************************************)
\* the request passed the rate limiter, the configuration check and the
\* token check, and its body was read and parsed
PayloadReached ==
    /\ pc = "done"
    /\ rlLast.key = req.ip /\ rlLast.allowed
    /\ req.envOk
    /\ HasGoodAuthorization
    /\ req.body \in {"form", "json", "jsonnull"}
    /\ req.body = "form" => req.file.present

MalformedObject == req.body \in {"form", "json"} /\ ViolatedRules(req.data) # {}

\* C28: every malformed upload payload, whether by a missing field, a bad
\* date, a bad filename, or a JSON body that parses to a non-object such as
\* null, is answered with status 400 carrying the list of violations, never
\* with status 500.
C28_MalformedAnswered400 ==
    (PayloadReached /\ (MalformedObject \/ req.body = "jsonnull"))
        => /\ response.status = 400
           /\ response.error = "Validation failed"
           /\ response.violations # <<>>

\* what does hold: a payload that is an object gets 400 and its violations
C28_MalformedObjectAnswered400 ==
    (PayloadReached /\ MalformedObject)
        => /\ response.status = 400
           /\ response.error = "Validation failed"
           /\ \A rule \in ViolatedRules(req.data) :
                  \E i \in DOMAIN response.violations :
                      response.violations[i] = rule

\* C29: when the store write reports an error, processImageUpload returns a
\* failure after exactly one write attempt for that request (the write is
\* never retried), and the request is not answered with status 200.
C29_StoreErrorFailsAfterOneWrite ==
    /\ (uploadResult.kind = "failure" /\ uploadResult.error = ErrStorage)
           => /\ net.store = 1
              /\ pc = "done"
              /\ response.status = 400
              /\ response.error = ErrStorage
    /\ net.store <= 1
    /\ (pc = "done" /\ response.status = 200)
           => (uploadResult.kind = "success" /\ net.store = 1)
    /\ uploadResult.kind = "failure" => response.status # 200

\* the store refused the bytes of a direct upload
C29_Witness ==
    /\ pc = "done"
    /\ req.file.present
    /\ uploadResult.kind = "failure"
    /\ uploadResult.error = ErrStorage
    /\ net.store = 1
    /\ response.status = 400

\* C30: for a multipart direct upload no outbound request to a remote origin
\* is made (fetchImageWithSessionHandling is never invoked), and the bytes
\* and content type handed to the store write are exactly those of the
\* uploaded file, with application/octet-stream only when the file declares
\* no type.
C30_DirectUploadStoresTheFile ==
    (IsUploadRequest /\ req.body = "form")
        => /\ net.origin = 0 /\ net.probe = 0 /\ net.verify = 0 /\ net.final = 0
           /\ fetch = FetchIdle
           /\ fetchResult = NoResult
           /\ pc \notin FetchPcs \cup {"waiting", "fetched"}
           /\ (pc = "upload" \/ net.store > 0)
                  => /\ req.file.present
                     /\ proc.uploadMode = "direct-upload"
                     /\ proc.imageData = req.file.bytes
                     /\ req.file.type # NoContentType
                            => proc.contentTypeHeader = req.file.type
                     /\ req.file.type = NoContentType
                            => proc.contentTypeHeader.type = "application"
                               /\ proc.contentTypeHeader.subtype = "octet-stream"

\* a file with a declared type was stored under that type
C30_Witness ==
    /\ pc = "done"
    /\ req.body = "form"
    /\ response.status = 200
    /\ net.store = 1
    /\ req.file.type = [type |-> "image", subtype |-> "png"]
    /\ proc.contentTypeHeader = req.file.type
    /\ proc.imageData = req.file.bytes

\* a file without a declared type was stored as application/octet-stream
C30_UntypedStoredAsOctetStream ==
    /\ pc = "done"
    /\ req.body = "form"
    /\ response.status = 200
    /\ req.file.type = NoContentType
    /\ proc.contentTypeHeader.subtype = "octet-stream"

(***************************************************************************)
(* Claims about denied checks, checked under SpecRL                        *)
(***************************************************************************)
\* the step is a checkRateLimit call that was denied
DeniedStep == rlLast'.key \in ClientIPs /\ ~rlLast'.allowed /\ now' = now

\* C31: a denied checkRateLimit call appends no timestamp to the key's entry
\* and changes no other key's entry: repeated denied checks never postpone
\* the instant at which the key is next admitted, which stays at oldest
\* remaining timestamp + window.
C31_DeniedCheckLeavesStore ==
    [][ DeniedStep =>
            LET key == rlLast'.key
            IN  /\ DOMAIN rateLimitStore' = DOMAIN rateLimitStore
                /\ key \in DOMAIN rateLimitStore
                /\ \A ip \in DOMAIN rateLimitStore \ {key} :
                       rateLimitStore'[ip] = rateLimitStore[ip]
                /\ rateLimitStore'[key].requests =
                       SelectSeq(rateLimitStore[key].requests,
                                 LAMBDA a : now - a < RATE_LIMIT_WINDOW)
                /\ Len(rateLimitStore'[key].requests) <= Len(rateLimitStore[key].requests)
                /\ rateLimitStore'[key].lastCleanup = rateLimitStore[key].lastCleanup
                /\ rlLast'.resetTime =
                       rateLimitStore'[key].requests[1] + RATE_LIMIT_WINDOW
                /\ rlLast'.resetTime > now
                \* a denial that follows a denial reports the same instant
                /\ (rlLast.key = key /\ ~rlLast.allowed)
                       => rlLast'.resetTime = rlLast.resetTime ]_vars

\* a key is denied while another key has an entry in the store
C31_Witness ==
    /\ rlLast.key = "10.0.0.1"
    /\ ~rlLast.allowed
    /\ Len(rateLimitStore["10.0.0.1"].requests) = RATE_LIMIT_MAX_REQUESTS
    /\ "10.0.0.2" \in DOMAIN rateLimitStore
    /\ rateLimitStore["10.0.0.2"].requests # <<>>

(***************************************************************************)
(* Claims about the storage path, checked under SpecFn                     *)
(***************************************************************************)
\* the pieces of a path between its '/' characters
RECURSIVE SplitSlash(_)
SplitSlash(path) ==
    IF \E i \in DOMAIN path : path[i] = "/"
    THEN LET at == CHOOSE i \in DOMAIN path :
                       path[i] = "/" /\ \A j \in 1..(i - 1) : path[j] # "/"
         IN  <<SubSeq(path, 1, at - 1)>> \o SplitSlash(SubSeq(path, at + 1, Len(path)))
    ELSE <<path>>

\* C32: for every request that passes validateUploadData the storage path
\* consists of exactly three non-empty segments, normalize(branch), date and
\* finalFilename, separated by exactly two '/': the branch segment is never
\* empty and the branch never introduces an extra path level.
C32_ThreeNonEmptySegments ==
    fnOp = "path"
        => LET segments == SplitSlash(fnRes)
           IN  /\ Len(segments) = 3
               /\ segments[1] = normalize(fnArg.branch.v)
               /\ segments[2] = fnArg.date.v
               /\ \E u \in UniqueSuffixes :
                      segments[3] = generateFinalFilename(fnArg.filename.v, u)
               /\ \A i \in 1..3 : segments[i] # <<>>

\* what does hold: three segments, two separators, whatever the branch holds
C32_ThreeSegments ==
    fnOp = "path"
        => LET segments == SplitSlash(fnRes)
           IN  /\ Len(segments) = 3
               /\ segments[1] = normalize(fnArg.branch.v)
               /\ segments[2] = fnArg.date.v /\ segments[2] # <<>>
               /\ segments[3] # <<>>

\* a branch holding a '/' gave a path of three segments
C32_SlashBranchThreeSegments ==
    /\ fnOp = "path"
    /\ fnArg.branch.v = <<"F", "e", "a", "t", "u", "r", "e", "/", "X">>
    /\ Len(SplitSlash(fnRes)) = 3

====
